---- MODULE Spec2Model ----
(***************************************************************************)
(* BLE fuzzing harness: the intelligent response analyzer                  *)
(* (IntelligentBLEResponseAnalyzer), the length-fuzz recovery campaigns    *)
(* (SmartBLETester) of length_unexpected_state.py and the retry engines    *)
(* and pairing campaign (EnhancedBLEPairingTester) of                      *)
(* pairing_max_key_size_test.py.                                           *)
(*                                                                         *)
(* A response text is a sequence of words (Atoms) joined by single blanks. *)
(* Python's substring test `p in text` is Contains(text, p): no pattern    *)
(* the code looks for holds a blank, so a pattern occurs in the text iff   *)
(* it occurs in one of its words, and Sub / LowerSub list, word by word,   *)
(* the patterns that occur in the word and in its lower-cased form.        *)
(***************************************************************************)
EXTENDS Integers, Sequences, FiniteSets, TLC

\* Longest response text (in words) the analyzer is applied to on its own.
MaxLen == 2

Atoms ==
    {"LL_SLAVE_FEATURE_REQ", "LL_LENGTH_RSP", "LL_TERMINATE_IND", "ERROR", "Error", "BTLE", "max_rx_bytes=0", "max_tx_bytes=0", "0x3E", "0x99", "Empty", " ", "ATT_Exchange_MTU_Response", "SM_Pairing_Response", "Reject", "scanning"}

Sub(a) ==
    CASE a = "LL_SLAVE_FEATURE_REQ" -> {"LL_SLAVE_FEATURE_REQ", "LL_"}
      [] a = "LL_LENGTH_RSP" -> {"LL_LENGTH_RSP", "LL_"}
      [] a = "LL_TERMINATE_IND" -> {"LL_TERMINATE_IND", "LL_"}
      [] a = "ERROR" -> {"ERROR"}
      [] a = "Error" -> {}
      [] a = "BTLE" -> {"BTLE"}
      [] a = "max_rx_bytes=0" -> {"max_rx_bytes=0"}
      [] a = "max_tx_bytes=0" -> {"max_tx_bytes=0"}
      [] a = "0x3E" -> {}
      [] a = "0x99" -> {}
      [] a = "Empty" -> {}
      [] a = " " -> {}
      [] a = "ATT_Exchange_MTU_Response" -> {"ATT_Exchange_MTU_Response", "ATT_"}
      [] a = "SM_Pairing_Response" -> {"SM_Pairing_Response", "Pairing_Response", "Pairing"}
      [] a = "Reject" -> {}
      [] a = "scanning" -> {}
      [] OTHER -> {}

LowerSub(a) ==
    CASE a = "LL_SLAVE_FEATURE_REQ" -> {}
      [] a = "LL_LENGTH_RSP" -> {}
      [] a = "LL_TERMINATE_IND" -> {}
      [] a = "ERROR" -> {"error"}
      [] a = "Error" -> {"error"}
      [] a = "BTLE" -> {}
      [] a = "max_rx_bytes=0" -> {}
      [] a = "max_tx_bytes=0" -> {}
      [] a = "0x3E" -> {}
      [] a = "0x99" -> {}
      [] a = "Empty" -> {}
      [] a = " " -> {}
      [] a = "ATT_Exchange_MTU_Response" -> {"mtu", "exchange"}
      [] a = "SM_Pairing_Response" -> {"pairing"}
      [] a = "Reject" -> {"reject"}
      [] a = "scanning" -> {"scanning"}
      [] OTHER -> {}

HexMatches(a) ==
    CASE a = "0x3E" -> <<"0x3E">>
      [] a = "0x99" -> <<"0x99">>
      [] OTHER -> <<>>

HexDigits(t) ==
    CASE t = "0x3E" -> <<3, 14>>
      [] t = "0x99" -> <<9, 9>>
      [] OTHER -> <<>>

IsSpace(a) == a = " "

HCI_ERROR_CODES ==
    <<"Success",
      "Unknown HCI Command",
      "Unknown Connection Identifier",
      "Hardware Failure",
      "Page Timeout",
      "Authentication Failure",
      "Pin or Key Missing",
      "Memory Capacity Exceeded",
      "Connection Timeout",
      "Connection Limit Exceeded",
      "Synchronous Connection Limit Exceeded",
      "ACL Connection Already Exists",
      "Command Disallowed",
      "Connection Rejected due to Limited Resources",
      "Connection Rejected due to Security Reasons",
      "Connection Rejected due to Unacceptable BD_ADDR",
      "Connection Accept Timeout Exceeded",
      "Unsupported Feature or Parameter Value",
      "Invalid HCI Command Parameters",
      "Remote User Terminated Connection",
      "Remote Device Terminated Connection due to Low Resources",
      "Remote Device Terminated Connection due to Power Off",
      "Connection Terminated by Local Host",
      "Repeated Attempts",
      "Pairing Not Allowed",
      "Unknown LMP PDU",
      "Unsupported Remote Feature / Unsupported LMP Feature",
      "SCO Offset Rejected",
      "SCO Interval Rejected",
      "SCO Air Mode Rejected",
      "Invalid LMP Parameters / Invalid LL Parameters",
      "Unspecified Error",
      "Unsupported LMP Parameter Value / Unsupported LL Parameter Value",
      "Role Change Not Allowed",
      "LMP Response Timeout / LL Response Timeout",
      "LMP Error Transaction Collision / LL Procedure Collision",
      "LMP PDU Not Allowed",
      "Encryption Mode Not Acceptable",
      "Link Key Cannot be Changed",
      "Requested QoS Not Supported",
      "Instant Passed",
      "Pairing with Unit Key Not Supported",
      "Different Transaction Collision",
      "Reserved",
      "QoS Unacceptable Parameter",
      "QoS Rejected",
      "Channel Classification Not Supported",
      "Insufficient Security",
      "Parameter Out Of Mandatory Range",
      "Reserved",
      "Role Switch Pending",
      "Reserved",
      "Reserved Slot Violation",
      "Role Switch Failed",
      "Extended Inquiry Response Too Large",
      "Secure Simple Pairing Not Supported by Host",
      "Host Busy - Pairing",
      "Connection Rejected due to No Suitable Channel Found",
      "Controller Busy",
      "Unacceptable Connection Parameters",
      "Advertising Timeout",
      "Connection Terminated due to MIC Failure",
      "Connection Failed to be Established",
      "MAC Connection Failed">>

LL_CONNECTION_PDUS ==
    <<<<"LL_SLAVE_FEATURE_REQ", "Slave Feature Request - Connection established">>,
      <<"LL_FEATURE_RSP", "Feature Response">>,
      <<"LL_VERSION_IND", "Version Indication">>,
      <<"LL_PING_REQ", "Ping Request">>,
      <<"LL_PING_RSP", "Ping Response">>,
      <<"LL_LENGTH_REQ", "Length Request">>,
      <<"LL_LENGTH_RSP", "Length Response">>,
      <<"LL_ENC_REQ", "Encryption Request">>,
      <<"LL_ENC_RSP", "Encryption Response">>,
      <<"LL_START_ENC_REQ", "Start Encryption Request">>,
      <<"LL_START_ENC_RSP", "Start Encryption Response">>,
      <<"LL_TERMINATE_IND", "Connection Termination Indication">>>>

CONNECTION_SUCCESS_INDICATORS ==
    <<"LL_SLAVE_FEATURE_REQ", "LL_FEATURE_RSP", "LL_VERSION_IND", "ATT_Exchange_MTU_Request", "ATT_Exchange_MTU_Response", "connected", "connection", "CONNECTED", "CONNECTION">>

CONNECTION_FAILURE_INDICATORS ==
    <<"ERROR", "error", "FAILED", "failed", "REJECT", "reject", "TIMEOUT", "timeout">>

(***************************************************************************)
(* Text primitives                                                         *)
(***************************************************************************)

\* `p in response_str`
Contains(text, p) == \E i \in 1..Len(text) : p \in Sub(text[i])

\* `p in response_str.lower()`
LowerContains(text, p) == \E i \in 1..Len(text) : p \in LowerSub(text[i])

\* `not response_str.strip()`
Blank(text) == \A i \in 1..Len(text) : IsSpace(text[i])

\* Mutant: only the literal "Empty" counts as no response.
EmptyText_literal_only(text) == text = <<"Empty">>

\* `response_str == "Empty" or not response_str.strip()`
EmptyText(text) == text = <<"Empty">> \/ Blank(text)

\* Truthiness of a response (`if response`): None and "" are falsy.
Truthy(response) == ~response.none /\ ~(response.isstr /\ response.text = <<>>)

\* A response object: Python's None, a string, or another object whose
\* str() is the text.
NoneResponse == [none |-> TRUE, isstr |-> FALSE, text |-> <<>>]

StrResponse(text) == [none |-> FALSE, isstr |-> TRUE, text |-> text]

ObjResponse(text) == [none |-> FALSE, isstr |-> FALSE, text |-> text]

\* constant.ERROR, the collaborator's error sentinel.
ERROR == StrResponse(<<"Error">>)


\* Index of the first pattern of pats that occurs in text, 0 if none does
\* (the for ... if ... break loops).
FirstMatch(pats, text) ==
    LET hits == {i \in 1..Len(pats) : Contains(text, pats[i])}
    IN  IF hits = {} THEN 0 ELSE CHOOSE i \in hits : \A j \in hits : i <= j

\* The keys of LL_CONNECTION_PDUS in insertion order.
LL_PDU_NAMES == [i \in 1..Len(LL_CONNECTION_PDUS) |-> LL_CONNECTION_PDUS[i][1]]

\* int(hex_code, 16) on the digits after "0x".
RECURSIVE HexValue(_)
HexValue(digits) ==
    IF digits = <<>> THEN 0
    ELSE 16 * HexValue(SubSeq(digits, 1, Len(digits) - 1)) + digits[Len(digits)]

\* The operations the testers classify, and the substrings of the operation
\* name the hint rules look for.
Operations ==
    {"connection_request", "post_attack_connection", "length_request",
     "scan_req", "mtu_request", "pairing_request", "Unknown"}

OperationSub(operation) ==
    CASE operation = "connection_request" -> {"connection"}
      [] operation = "post_attack_connection" -> {"connection"}
      [] operation = "length_request" -> {"length_request"}
      [] OTHER -> {}

\* A context is None (<<>>) or one of the f-strings the testers build:
\* attempt_<n>, attack_max_rx_<n>, recovery_attempt_<n>.
NoContext == <<>>

\* Mutant: any context marks an attack.
ContextHasAttack_any(context) == context # <<>>

\* `context and "attack" in context`
ContextHasAttack(context) == context # <<>> /\ context[1] = "attack_max_rx"

(***************************************************************************)
(* IntelligentBLEResponseAnalyzer                                          *)
(***************************************************************************)

detect_protocol_layer(response, operation) ==
    IF ~Truthy(response) THEN "unknown"
    ELSE IF Contains(response.text, "LL_") THEN "LL (Link Layer)"
    ELSE IF Contains(response.text, "ATT_") THEN "ATT"
    ELSE IF Contains(response.text, "L2CAP") THEN "L2CAP"
    ELSE IF Contains(response.text, "HCI") THEN "HCI"
    ELSE CASE operation = "scan_req" -> "HCI"
           [] operation = "connection_request" -> "HCI/L2CAP/LL"
           [] operation = "length_request" -> "LL (Link Layer)"
           [] operation = "mtu_request" -> "ATT/L2CAP"
           [] operation = "pairing_request" -> "SM (Security Manager)"
           [] operation = "feature_request" -> "LL (Link Layer)"
           [] operation = "version_request" -> "LL (Link Layer)"
           [] OTHER -> "unknown"

\* The dict an operation-specific analysis returns.  Only the length
\* analysis carries a vulnerability_hints key; for the others the key is
\* absent and analysis.update keeps the (empty) list of the fresh analysis.
\* Mutant: the warning that explains the status is not recorded.
OpResult_drops_warnings(status, success, warning, hints) ==
    [status |-> status, success_indicators |-> success,
     warning_indicators |-> <<>>, vulnerability_hints |-> hints]

OpResult(status, success, warning, hints) ==
    [status |-> status, success_indicators |-> success,
     warning_indicators |-> warning, vulnerability_hints |-> hints]

\* Mutant: the failure indicators are looked for before the success ones.
analyze_connection_response_failure_first(text) ==
    LET s == FirstMatch(CONNECTION_SUCCESS_INDICATORS, text)
        f == FirstMatch(CONNECTION_FAILURE_INDICATORS, text)
        l == FirstMatch(LL_PDU_NAMES, text)
    IN  IF f > 0 THEN
            OpResult("error", <<>>,
                <<<<"Found connection failure indicator", CONNECTION_FAILURE_INDICATORS[f]>>>>, <<>>)
        ELSE IF s > 0 THEN
            OpResult("success",
                <<<<"Found connection success indicator", CONNECTION_SUCCESS_INDICATORS[s]>>>>,
                <<>>, <<>>)
        ELSE IF l > 0 THEN
            OpResult("success",
                <<<<"Link Layer interaction", LL_CONNECTION_PDUS[l][1], LL_CONNECTION_PDUS[l][2]>>>>,
                <<<<"Connection response format non-standard, but Link Layer interaction exists">>>>,
                <<>>)
        ELSE IF Contains(text, "BTLE") \/ Contains(text, "BLE") THEN
            OpResult("partial_success", <<>>,
                <<<<"Received BLE frame packet, but no clear connection status">>>>, <<>>)
        ELSE OpResult("unknown", <<>>, <<>>, <<>>)

\* Lines 299-341: success indicators, then failure indicators, then the
\* link-layer PDU names, then the frame marker.
analyze_connection_response(text) ==
    LET s == FirstMatch(CONNECTION_SUCCESS_INDICATORS, text)
        f == FirstMatch(CONNECTION_FAILURE_INDICATORS, text)
        l == FirstMatch(LL_PDU_NAMES, text)
    IN  IF s > 0 THEN
            OpResult("success",
                <<<<"Found connection success indicator", CONNECTION_SUCCESS_INDICATORS[s]>>>>
                \o (IF CONNECTION_SUCCESS_INDICATORS[s] = "LL_SLAVE_FEATURE_REQ"
                    THEN <<<<"Link Layer Feature Request - Connection established successfully">>>>
                    ELSE <<>>),
                <<>>, <<>>)
        ELSE IF f > 0 THEN
            OpResult("error", <<>>,
                <<<<"Found connection failure indicator", CONNECTION_FAILURE_INDICATORS[f]>>>>, <<>>)
        ELSE IF l > 0 THEN
            OpResult("success",
                <<<<"Link Layer interaction", LL_CONNECTION_PDUS[l][1], LL_CONNECTION_PDUS[l][2]>>>>,
                <<<<"Connection response format non-standard, but Link Layer interaction exists">>>>,
                <<>>)
        ELSE IF Contains(text, "BTLE") \/ Contains(text, "BLE") THEN
            OpResult("partial_success", <<>>,
                <<<<"Received BLE frame packet, but no clear connection status">>>>, <<>>)
        ELSE OpResult("unknown", <<>>, <<>>, <<>>)

\* Mutant: the generic link-layer test comes before the LL_LENGTH_RSP test.
analyze_length_response_generic_first(text) ==
    IF Contains(text, "LL_") THEN
        OpResult("partial_success", <<>>, <<<<"Received unexpected Link Layer response">>>>, <<>>)
    ELSE IF EmptyText(text) THEN
        OpResult("no_response", <<>>, <<<<"No response to length request">>>>,
            <<<<"Device may not handle abnormal length requests">>>>)
    ELSE OpResult("unknown", <<>>, <<>>, <<>>)

\* Mutant: silence is reported as no_response without a hint.
analyze_length_response_silent_no_hint(text) ==
    IF Contains(text, "LL_LENGTH_RSP") THEN
        IF Contains(text, "max_rx_bytes=0") \/ Contains(text, "max_tx_bytes=0")
        THEN OpResult("success", <<<<"Received length response">>>>,
                <<<<"Length response contains zero value - may not comply with specifications">>>>,
                <<<<"SweynTooth-like vulnerability: zero length response">>>>)
        ELSE OpResult("success", <<<<"Received length response">>>>, <<>>, <<>>)
    ELSE IF EmptyText(text) THEN
        OpResult("no_response", <<>>, <<<<"No response to length request">>>>, <<>>)
    ELSE IF Contains(text, "LL_") THEN
        OpResult("partial_success", <<>>, <<<<"Received unexpected Link Layer response">>>>, <<>>)
    ELSE IF Contains(text, "ERROR") \/ Contains(text, "error") THEN
        OpResult("error", <<>>, <<<<"Length request returned error">>>>, <<>>)
    ELSE OpResult("unknown", <<>>, <<>>, <<>>)

analyze_length_response(text) ==
    IF Contains(text, "LL_LENGTH_RSP") THEN
        IF Contains(text, "max_rx_bytes=0") \/ Contains(text, "max_tx_bytes=0")
        THEN OpResult("success", <<<<"Received length response">>>>,
                <<<<"Length response contains zero value - may not comply with specifications">>>>,
                <<<<"SweynTooth-like vulnerability: zero length response">>>>)
        ELSE OpResult("success", <<<<"Received length response">>>>, <<>>, <<>>)
    ELSE IF EmptyText(text) THEN
        OpResult("no_response", <<>>, <<<<"No response to length request">>>>,
            <<<<"Device may not handle abnormal length requests">>>>)
    ELSE IF Contains(text, "LL_") THEN
        OpResult("partial_success", <<>>, <<<<"Received unexpected Link Layer response">>>>, <<>>)
    ELSE IF Contains(text, "ERROR") \/ Contains(text, "error") THEN
        OpResult("error", <<>>, <<<<"Length request returned error">>>>, <<>>)
    ELSE OpResult("unknown", <<>>, <<>>, <<>>)

\* constant.ERROR, the collaborator's error sentinel, is the non-empty
\* string "Error": `"error" in response_lower or constant.ERROR` is true.
analyze_by_operation(text, operation) ==
    CASE operation = "connection_request" -> analyze_connection_response(text)
      [] operation = "scan_req" ->
            IF LowerContains(text, "scanning") \/ LowerContains(text, "advertising")
            THEN OpResult("success", <<<<"Scan operation normal">>>>, <<>>, <<>>)
            ELSE IF LowerContains(text, "error") \/ Truthy(ERROR)
            THEN OpResult("error", <<>>, <<<<"Scan failed">>>>, <<>>)
            ELSE OpResult("partial_success", <<>>, <<<<"Ambiguous scan response">>>>, <<>>)
      [] operation = "length_request" -> analyze_length_response(text)
      [] operation = "mtu_request" ->
            IF LowerContains(text, "mtu") \/ LowerContains(text, "exchange")
            THEN OpResult("success", <<<<"MTU exchange normal">>>>, <<>>, <<>>)
            ELSE IF EmptyText(text)
            THEN OpResult("no_response", <<>>, <<<<"No response to MTU request">>>>, <<>>)
            ELSE OpResult("unknown_response", <<>>, <<>>, <<>>)
      [] operation = "pairing_request" ->
            IF LowerContains(text, "pairing") \/ LowerContains(text, "security")
            THEN OpResult("success", <<<<"Pairing process started">>>>, <<>>, <<>>)
            ELSE IF LowerContains(text, "reject") \/ LowerContains(text, "invalid")
            THEN OpResult("rejected", <<>>, <<<<"Pairing request rejected">>>>, <<>>)
            ELSE OpResult("unknown_response", <<>>, <<>>, <<>>)
      [] OTHER -> OpResult("unknown", <<>>, <<>>, <<>>)

\* One error_details entry per hexadecimal token: <<code, decimal, description>>.
ErrorDetail(code) ==
    LET code_int == HexValue(HexDigits(code))
    IN  <<code, code_int,
          IF code_int \in 0..(Len(HCI_ERROR_CODES) - 1)
          THEN HCI_ERROR_CODES[code_int + 1] ELSE "Unknown error code">>

\* Mutant: a code the HCI table does not know is dropped.
RECURSIVE extract_error_codes_known_only(_)
extract_error_codes_known_only(text) ==
    IF text = <<>> THEN <<>>
    ELSE LET m == HexMatches(Head(text))
             known == SelectSeq(m, LAMBDA code : HexValue(HexDigits(code)) < Len(HCI_ERROR_CODES))
         IN  [i \in 1..Len(known) |-> ErrorDetail(known[i])]
                 \o extract_error_codes_known_only(Tail(text))

\* Mutant: the matches are collected last first.
RECURSIVE extract_error_codes_newest_first(_)
extract_error_codes_newest_first(text) ==
    IF text = <<>> THEN <<>>
    ELSE LET m == HexMatches(Head(text))
         IN  extract_error_codes_newest_first(Tail(text))
                 \o [i \in 1..Len(m) |-> ErrorDetail(m[Len(m) + 1 - i])]

\* re.findall(r"0x[0-9a-fA-F]{2,4}", response_str), left to right.
RECURSIVE extract_error_codes(_)
extract_error_codes(text) ==
    IF text = <<>> THEN <<>>
    ELSE LET m == HexMatches(Head(text))
         IN  [i \in 1..Len(m) |-> ErrorDetail(m[i])] \o extract_error_codes(Tail(text))

\* Mutant: the rules are an elif chain, only the first that holds is
\* appended.
detect_vulnerability_hints_first_only(text, operation, context) ==
    IF operation = "length_request" /\ EmptyText(text)
    THEN <<<<"Device has no response to abnormal length request - may trigger SweynTooth vulnerability">>>>
    ELSE IF operation = "length_request"
           /\ (Contains(text, "max_rx_bytes=0") \/ Contains(text, "max_tx_bytes=0"))
    THEN <<<<"Device accepts zero value length parameters - potential protocol stack vulnerability">>>>
    ELSE IF "connection" \in OperationSub(operation) /\ Contains(text, "LL_TERMINATE_IND")
           /\ ContextHasAttack(context)
    THEN <<<<"Abnormal connection termination after attack - may trigger denial of service">>>>
    ELSE IF Contains(text, "LL_SLAVE_FEATURE_REQ") /\ "length_request" \in OperationSub(operation)
    THEN <<<<"Received feature request after length request - state machine may be abnormal">>>>
    ELSE <<>>

detect_vulnerability_hints(text, operation, context) ==
    (IF operation = "length_request" /\ EmptyText(text)
     THEN <<<<"Device has no response to abnormal length request - may trigger SweynTooth vulnerability">>>>
     ELSE <<>>)
    \o (IF operation = "length_request"
           /\ (Contains(text, "max_rx_bytes=0") \/ Contains(text, "max_tx_bytes=0"))
        THEN <<<<"Device accepts zero value length parameters - potential protocol stack vulnerability">>>>
        ELSE <<>>)
    \o (IF "connection" \in OperationSub(operation) /\ Contains(text, "LL_TERMINATE_IND")
           /\ ContextHasAttack(context)
        THEN <<<<"Abnormal connection termination after attack - may trigger denial of service">>>>
        ELSE <<>>)
    \o (IF Contains(text, "LL_SLAVE_FEATURE_REQ") /\ "length_request" \in OperationSub(operation)
        THEN <<<<"Received feature request after length request - state machine may be abnormal">>>>
        ELSE <<>>)

determine_final_status(analysis) ==
    IF analysis.is_error THEN "error"
    ELSE IF analysis.status \in {"success", "partial_success"} THEN analysis.status
    ELSE IF analysis.success_indicators # <<>> THEN "success"
    ELSE IF analysis.warning_indicators # <<>> THEN "warning"
    ELSE "unknown"

\* Mutant: the table alone, without the two overrides.
suggest_action_table_only(analysis) ==
    CASE analysis.status = "success" -> "Proceed to next operation"
      [] analysis.status = "partial_success" -> "Observe device behavior, consider retrying"
      [] analysis.status = "error" -> "Check device status and connection parameters"
      [] analysis.status = "no_response" -> "Wait for device recovery or restart device"
      [] analysis.status = "unknown" -> "Further analysis required"
      [] OTHER -> "No suggestions"

suggest_action(analysis) ==
    IF analysis.operation = "connection_request" /\ analysis.status = "error"
    THEN "Check if device is in advertising state, adjust scan parameters"
    ELSE IF "length_request" \in OperationSub(analysis.operation) /\ analysis.status = "no_response"
    THEN "Device may be sensitive to abnormal length requests, try testing with normal values"
    ELSE CASE analysis.status = "success" -> "Proceed to next operation"
           [] analysis.status = "partial_success" -> "Observe device behavior, consider retrying"
           [] analysis.status = "error" -> "Check device status and connection parameters"
           [] analysis.status = "no_response" -> "Wait for device recovery or restart device"
           [] analysis.status = "unknown" -> "Further analysis required"
           [] OTHER -> "No suggestions"

\* The status code print_analysis returns.
print_analysis(analysis) ==
    CASE analysis.status = "success" -> 0
      [] analysis.status = "partial_success" -> 1
      [] analysis.status = "warning" -> 2
      [] analysis.status = "error" -> 3
      [] analysis.status = "no_response" -> 4
      [] analysis.status = "unknown" -> 5
      [] OTHER -> 5

\* The analysis dict as first built (timestamp, response_type and
\* response_summary, which nothing reads, are left out).
FreshAnalysis(response, operation, context) ==
    [operation |-> operation,
     raw_response |-> IF Truthy(response) THEN response.text ELSE <<"None">>,
     status |-> "unknown",
     protocol_layer |-> detect_protocol_layer(response, operation),
     is_error |-> FALSE,
     error_details |-> <<>>,
     success_indicators |-> <<>>,
     warning_indicators |-> <<>>,
     vulnerability_hints |-> <<>>,
     recommended_action |-> "None",
     context |-> context]

\* Mutant: the final status is recomputed whatever the operation-specific
\* analysis found.
FinalStatus_always(analysis) == determine_final_status(analysis)

\* Step 4 of intelligent_analyze_response: the status is recomputed only
\* when the operation-specific analysis left it unknown.
FinalStatus(analysis) ==
    IF analysis.status = "unknown" THEN determine_final_status(analysis)
    ELSE analysis.status

\* Mutant: the check for an absent response is missing.
AbsentResponse_never(response) == FALSE

\* `if response is None`
AbsentResponse(response) == response.none

intelligent_analyze_response(response, operation, context) ==
    LET fresh == FreshAnalysis(response, operation, context)
    IN  IF AbsentResponse(response) THEN
            [fresh EXCEPT !.status = "no_response", !.is_error = TRUE,
                          !.error_details = <<<<"No response from device">>>>,
                          !.recommended_action = "Check if device is online or restart the device"]
        ELSE
            LET byop == analyze_by_operation(response.text, operation)
                error_codes == extract_error_codes(response.text)
                a1 == [fresh EXCEPT !.status = byop.status,
                                    !.success_indicators = byop.success_indicators,
                                    !.warning_indicators = byop.warning_indicators,
                                    !.vulnerability_hints = byop.vulnerability_hints,
                                    !.error_details = error_codes,
                                    !.is_error = (error_codes # <<>>)]
                a2 == [a1 EXCEPT !.vulnerability_hints =
                          @ \o detect_vulnerability_hints(response.text, operation, context)]
                a3 == [a2 EXCEPT !.status = FinalStatus(a2)]
            IN  [a3 EXCEPT !.recommended_action = suggest_action(a3)]

(***************************************************************************)
(* State                                                                   *)
(***************************************************************************)

VARIABLES
    prog,               \* which entry point runs: "length", "pairing", "classify"
    pc,                 \* control point of the running entry point
    ble,                \* the collaborator (FuzzingBLESUL): calls received so far
    mark,               \* ble as it was when the current campaign started
    script,             \* how the collaborator answers the phase it is in
    last_response,      \* what the collaborator's last call returned or raised
    link_open,          \* a connection was accepted and no termination requested since
    attempt,            \* loop variable of the running retry loop
    waits,              \* the time.sleep calls of the retry engines, in tenths of a second
    \* SmartBLETester
    connection_stats,   \* self.connection_stats
    elapsed_bound,      \* smart_connection_test: local elapsed_time is bound
    conn_ret,           \* what smart_connection_test returned
    max_rx_bytes,       \* test_length_vulnerability's parameter
    result,             \* test_length_vulnerability's result dict
    recovery_results,   \* test_length_vulnerability's recovery_results
    probe,              \* the recovery loop's i + 1
    test_results,       \* comprehensive_vulnerability_test's test_results
    assessment,         \* the branch analyze_test_results selected
    saves,              \* self.pcap_filename, and what the save methods gave back
    \* EnhancedBLEPairingTester
    key_size,           \* robust_pairing_test's parameter
    fails,              \* failed attempts of the running retry engine
    scan_ret,           \* what robust_scan returned
    connect_ret,        \* what robust_connect returned
    pairing_ret,        \* what robust_pairing_test returned
    \* run_comprehensive_pairing_test
    start_key_size,     \* its parameters, swapped at line 269 when start < end
    end_key_size,
    current_key_size,   \* the loop's key size
    accepted_key_sizes, \* the key sizes the device accepted
    test_stats,         \* the statistics dict
    \* IntelligentBLEResponseAnalyzer, applied on its own
    response, operation, context, analysis

collaboratorVars == <<ble, mark, script, last_response, link_open>>

lengthVars ==
    <<connection_stats, elapsed_bound, conn_ret, max_rx_bytes, result,
      recovery_results, probe, test_results, assessment>>

pairingVars == <<key_size, fails, scan_ret, connect_ret, pairing_ret>>

sweepVars ==
    <<start_key_size, end_key_size, current_key_size, accepted_key_sizes, test_stats>>

classifyVars == <<response, operation, context, analysis>>

vars ==
    <<prog, pc, attempt, waits, saves, collaboratorVars, lengthVars, pairingVars,
      sweepVars, classifyVars>>

(***************************************************************************)
(* The collaborator                                                        *)
(***************************************************************************)

\* smart_connection_test(max_retries=7)
max_retries == 7

\* for i in range(7): the recovery probes of a campaign
RecoveryProbes == 7

\* robust_scan / robust_connect as robust_pairing_test calls them
max_scan_retries == 7

max_connect_retries == 7

\* A fault raised by a collaborator call.
Fault == [none |-> FALSE, isstr |-> FALSE, text |-> <<"<raised>">>]

\* A connection response carrying the link-layer feature request.
FeatureReq == StrResponse(<<"LL_SLAVE_FEATURE_REQ">>)

\* A response no pattern of the analyzer recognises.
Junk == StrResponse(<<"Empty">>)

NoScript == [first_ok |-> 0, good |-> {}, fail |-> "none", fuzz |-> NoneResponse]

\* How a scripted collaborator answers its i-th connection_request of the
\* phase: with the feature request from attempt first_ok on and on the
\* probes in good, and with its failure kind otherwise ("mixed": faults on
\* the odd calls, the sentinel on the even ones).
ConnectionReply(s, i) ==
    IF (s.first_ok > 0 /\ i >= s.first_ok) \/ i \in s.good THEN FeatureReq
    ELSE CASE s.fail = "fault" -> Fault
           [] s.fail = "sentinel" -> ERROR
           [] s.fail = "junk" -> Junk
           [] s.fail = "mixed" -> IF i % 2 = 1 THEN Fault ELSE ERROR

\* Pre-connection: the device answers at once, at the last attempt, or never.
PreScripts ==
    {[NoScript EXCEPT !.first_ok = 1, !.fail = "sentinel"],
     [NoScript EXCEPT !.first_ok = max_retries, !.fail = "mixed"]}
    \cup {[NoScript EXCEPT !.first_ok = max_retries + 1, !.fail = k] :
            k \in {"fault", "sentinel", "junk", "mixed"}}

\* Recovery: the device answers no probe, exactly three, or every one.
ProbeScripts ==
    {[NoScript EXCEPT !.fail = k] : k \in {"fault", "sentinel"}}
    \cup {[NoScript EXCEPT !.good = {2, 4, 6}, !.fail = "fault"],
          [NoScript EXCEPT !.good = 1..RecoveryProbes, !.fail = "sentinel"]}

\* What length_request_fuzzed does: raises, returns an empty text, or
\* returns a length response that accepts the zero length.
FuzzReplies ==
    {Fault, StrResponse(<<>>), StrResponse(<<"LL_LENGTH_RSP", "max_rx_bytes=0">>)}

\* What scan_req and connection_request do for the pairing tester.
EngineReplies == {Fault, ERROR, NoneResponse, FeatureReq}

\* What pairing_request_fuzzed does.
PairingReplies ==
    {Fault, NoneResponse, StrResponse(<<"SM_Pairing_Response">>),
     StrResponse(<<"Reject">>), ObjResponse(<<"SM_Pairing_Response">>)}

NoCalls ==
    [scan_req |-> 0, connection_request |-> 0, length_request_fuzzed |-> 0,
     pairing_request_fuzzed |-> 0, termination_indication |-> 0, save_pcap |-> 0]

Called(b, name) == [b EXCEPT ![name] = @ + 1]

(***************************************************************************)
(* SmartBLETester                                                          *)
(***************************************************************************)

\* comprehensive_vulnerability_test: the three campaigns' max_rx_bytes.
SweepValues == <<0, 3000, 251>>

NoAnalysis == [status |-> "absent"]

NoReturn == [connected |-> FALSE, returned |-> FALSE, response |-> NoneResponse,
             analysis |-> NoAnalysis]

\* A dict is a record with the set of its keys; a key not in keys is absent.
NoResult ==
    [keys |-> {}, test |-> "", max_rx_bytes |-> 0, result |-> "", details |-> "",
     error |-> "", response_analysis |-> NoAnalysis, vulnerability_indicated |-> FALSE,
     recovery_tests |-> <<>>, overall_result |-> "", vulnerability |-> ""]

\* dict.get(key, default)
Get(d, key, default) == IF key \in d.keys THEN d[key] ELSE default

\* No engine has slept yet.
NoWaits == [scan |-> <<>>, connect |-> <<>>]

\* robust_scan / robust_connect: retry_delay=1.0 (lines 82 and 115)
retry_delay == 10

\* smart_connection_test line 661: time.sleep(2)
connection_retry_delay == 20

\* smart_connection_test line 648: time.sleep(0.5) once connected
stability_wait == 5

\* Mutant: the engine also sleeps after its last attempt.
SleepsAfterFailure_always(n, limit, delay) == <<delay>>

\* `if attempt < max_retries: time.sleep(delay)` after a failed attempt:
\* the sleeps it adds.
SleepsAfterFailure(n, limit, delay) == IF n < limit THEN <<delay>> ELSE <<>>

\* Mutant: the loop runs one attempt too many.
KeepTrying_inclusive(n, limit) == n <= limit

\* `for attempt in range(1, max_retries + 1)`: another iteration follows.
KeepTrying(n, limit) == n < limit

\* Mutant: the early return is taken only when nothing was returned.
PreConnected_any_return(ret) == ret.returned

\* test_length_vulnerability line 682: `if not connected` returns early.
PreConnected(ret) == ret.connected

\* Mutant: only an error verdict makes a failed attempt.
Accepted_unless_error(a) == print_analysis(a) # 3

\* smart_connection_test accepts an attempt whose status code is <= 1.
Accepted(a) == print_analysis(a) <= 1

\* One iteration of smart_connection_test's loop on the reply r: the
\* counters after it.
StatsAfter(stats, r) ==
    IF r = Fault THEN [stats EXCEPT !.failed = @ + 1]
    ELSE IF Accepted(intelligent_analyze_response(r, "connection_request", <<"attempt", attempt>>))
    THEN [stats EXCEPT !.total_attempts = @ + 1, !.successful = @ + 1]
    ELSE [stats EXCEPT !.total_attempts = @ + 1, !.failed = @ + 1]

\* After the loop: `if total_attempts > 0: avg_time = elapsed_time` reads a
\* local that is bound only if some connection_request of this call returned.
ReadsUnboundElapsed(stats, bound) == stats.total_attempts > 0 /\ ~bound

\* The operation name the recovery probes are classified under.
ProbeOperation == "post_attack_connection"

\* Mutant: only an exception counts as not recovered.
successful_recoveries_not_exception(recs) ==
    Cardinality({j \in 1..Len(recs) : recs[j].status # "exception"})

\* Lines 772-783: the overall result from the recovery records.
successful_recoveries(recs) ==
    Cardinality({j \in 1..Len(recs) : recs[j].status = "success"})

overall_result(recs) ==
    IF successful_recoveries(recs) = 0 THEN "device_crashed"
    ELSE IF successful_recoveries(recs) < Len(recs) THEN "partial_recovery"
    ELSE "full_recovery"

\* Mutant: a partial recovery is not reported as a vulnerability.
vulnerability_confirmed_only(recs) ==
    IF successful_recoveries(recs) = 0 THEN "Confirmed - Denial of Service vulnerability"
    ELSE "No vulnerability"

vulnerability(recs) ==
    IF successful_recoveries(recs) = 0 THEN "Confirmed - Denial of Service vulnerability"
    ELSE IF successful_recoveries(recs) < Len(recs) THEN "Suspected - Partial Denial of Service"
    ELSE "No vulnerability"

\* The dict test_length_vulnerability returns when pre-connection failed.
FailedPreConnection(rx) ==
    [NoResult EXCEPT !.keys = {"test", "max_rx_bytes", "result", "details"},
                     !.test = "length_vulnerability", !.max_rx_bytes = rx,
                     !.result = "failed_pre_connection",
                     !.details = "Cannot establish initial connection"]

\* The dict phase 2 builds from the fuzzed request's reply (request_time,
\* a wall-clock reading, is left out).
PerturbResult(rx, r) ==
    IF r = Fault THEN
        [NoResult EXCEPT !.keys = {"test", "max_rx_bytes", "result", "error"},
                         !.test = "length_vulnerability", !.max_rx_bytes = rx,
                         !.result = "exception", !.error = "fault"]
    ELSE
        LET a == intelligent_analyze_response(r, "length_request", <<"attack_max_rx", rx>>)
        IN  [NoResult EXCEPT !.keys = {"test", "max_rx_bytes", "response_analysis",
                                       "vulnerability_indicated"},
                             !.test = "length_vulnerability", !.max_rx_bytes = rx,
                             !.response_analysis = a,
                             !.vulnerability_indicated = (Len(a.vulnerability_hints) > 0)]

\* analyze_test_results: the campaigns whose "vulnerability" is Confirmed or
\* Suspected, the warnings, and the branch of the security assessment.
vulnerabilities_found(results) ==
    {j \in 1..Len(results) :
        /\ "vulnerability" \in results[j].keys
        /\ results[j].vulnerability \in {"Confirmed - Denial of Service vulnerability",
                                         "Suspected - Partial Denial of Service"}}

warnings(results) ==
    {j \in 1..Len(results) :
        /\ "recovery_tests" \in results[j].keys
        /\ \/ successful_recoveries(results[j].recovery_tests) = 0
           \/ successful_recoveries(results[j].recovery_tests) < Len(results[j].recovery_tests)}

\* Mutant: the warnings are looked at before the vulnerabilities.
analyze_test_results_warnings_first(results) ==
    IF warnings(results) # {} THEN "Abnormal behavior found"
    ELSE IF vulnerabilities_found(results) # {} THEN "Security vulnerabilities found"
    ELSE "Device security is good"

analyze_test_results(results) ==
    IF vulnerabilities_found(results) # {} THEN "Security vulnerabilities found"
    ELSE IF warnings(results) # {} THEN "Abnormal behavior found"
    ELSE "Device security is good"

\* Nothing saved yet: self.pcap_filename is None (line 556).
NoSaves == [pcap_filename |-> "None", pcap |-> "none", report |-> "none"]

\* What the collaborator's save_pcap, and the writing of the report file,
\* can do: raise a fault or return.
SaveReplies == {Fault, NoneResponse}

WriteOutcomes == {Fault, NoneResponse}

\* Mutant: no except clause around the collaborator's save.
save_pcap_no_except(r) == IF r = Fault THEN "raise" ELSE "True"

\* SmartBLETester.save_pcap lines 599-605: what the call gives its caller
\* when the collaborator's save_pcap does r.
save_pcap(r) == IF r = Fault THEN "False" ELSE "True"

\* save_test_report lines 932-975: the report is written, or the fault of
\* the write is caught and logged.
save_test_report(w) == IF w = Fault THEN "failed" ELSE "written"

InitCommon ==
    /\ ble = NoCalls
    /\ mark = NoCalls
    /\ script = NoScript
    /\ last_response = NoneResponse
    /\ link_open = FALSE
    /\ attempt = 0
    /\ waits = NoWaits
    /\ connection_stats = [total_attempts |-> 0, successful |-> 0, failed |-> 0]
    /\ elapsed_bound = FALSE
    /\ conn_ret = NoReturn
    /\ max_rx_bytes = 0
    /\ result = NoResult
    /\ recovery_results = <<>>
    /\ probe = 0
    /\ test_results = <<>>
    /\ assessment = ""
    /\ saves = NoSaves
    /\ key_size = 0
    /\ fails = [scan |-> 0, connect |-> 0]
    /\ scan_ret = [returned |-> FALSE, success |-> FALSE, result |-> NoneResponse]
    /\ connect_ret = [returned |-> FALSE, success |-> FALSE, result |-> NoneResponse]
    /\ pairing_ret = [returned |-> FALSE, accepted |-> FALSE, keys |-> {},
                      scan_success |-> FALSE, connect_success |-> FALSE,
                      pairing_response |-> NoneResponse]

\* test_stats as lines 257-265 build it.
NoStats ==
    [total_tests |-> 0, successful_tests |-> 0, failed_tests |-> 0, scan_failures |-> 0,
     connect_failures |-> 0, pairing_rejections |-> 0, no_response |-> 0]

InitSweepVars ==
    /\ start_key_size = 0
    /\ end_key_size = 0
    /\ current_key_size = 0
    /\ accepted_key_sizes = <<>>
    /\ test_stats = NoStats

InitClassifyVars ==
    /\ response = NoneResponse
    /\ operation = "Unknown"
    /\ context = NoContext
    /\ analysis = NoAnalysis

\* comprehensive_vulnerability_test calls test_length_vulnerability, which
\* calls smart_connection_test(max_retries=7).
StartCampaign ==
    /\ prog = "length" /\ pc = "idle"
    /\ Len(test_results) < Len(SweepValues)
    /\ max_rx_bytes' = SweepValues[Len(test_results) + 1]
    /\ pc' = "connect"
    /\ attempt' = 1
    /\ elapsed_bound' = FALSE
    /\ conn_ret' = NoReturn
    /\ result' = NoResult
    /\ recovery_results' = <<>>
    /\ probe' = 0
    /\ mark' = ble
    /\ script' \in PreScripts
    /\ waits' = NoWaits
    /\ UNCHANGED <<prog, sweepVars, saves, link_open, ble, last_response, connection_stats, test_results, assessment,
                   pairingVars, classifyVars>>

\* One iteration of smart_connection_test's loop and, after the last one,
\* the code behind the loop (lines 621-668).
ConnectAttempt ==
    /\ prog = "length" /\ pc = "connect"
    /\ LET r == ConnectionReply(script, attempt)
           stats == StatsAfter(connection_stats, r)
           bound == elapsed_bound \/ r # Fault
           a == intelligent_analyze_response(r, "connection_request", <<"attempt", attempt>>)
       IN  /\ ble' = Called(ble, "connection_request")
           /\ last_response' = r
           /\ connection_stats' = stats
           /\ elapsed_bound' = bound
           /\ IF r # Fault /\ Accepted(a) THEN
                  /\ conn_ret' = [connected |-> TRUE, returned |-> TRUE,
                                  response |-> r, analysis |-> a]
                  /\ pc' = "connected"
                  /\ attempt' = attempt
                  /\ link_open' = TRUE
                  /\ waits' = [waits EXCEPT !.connect = @ \o <<stability_wait>>]
              ELSE IF KeepTrying(attempt, max_retries) THEN
                  /\ attempt' = attempt + 1
                  /\ pc' = "connect"
                  /\ conn_ret' = conn_ret
                  /\ link_open' = link_open
                  /\ waits' = [waits EXCEPT !.connect = @ \o SleepsAfterFailure(attempt, max_retries, connection_retry_delay)]
              ELSE IF ReadsUnboundElapsed(stats, bound) THEN
                  /\ pc' = "raised"
                  /\ attempt' = attempt
                  /\ conn_ret' = conn_ret
                  /\ link_open' = link_open
                  /\ waits' = [waits EXCEPT !.connect = @ \o SleepsAfterFailure(attempt, max_retries, connection_retry_delay)]
              ELSE
                  /\ conn_ret' = [connected |-> FALSE, returned |-> TRUE,
                                  response |-> NoneResponse, analysis |-> NoAnalysis]
                  /\ pc' = "connected"
                  /\ attempt' = attempt
                  /\ link_open' = link_open
                  /\ waits' = [waits EXCEPT !.connect = @ \o SleepsAfterFailure(attempt, max_retries, connection_retry_delay)]
    /\ UNCHANGED <<prog, sweepVars, saves, mark, script, max_rx_bytes, result, recovery_results, probe,
                   test_results, assessment, pairingVars, classifyVars>>

\* test_length_vulnerability lines 682-689, and the sweep's append.
PreConnectionFailed ==
    /\ prog = "length" /\ pc = "connected" /\ ~PreConnected(conn_ret)
    /\ result' = FailedPreConnection(max_rx_bytes)
    /\ test_results' = Append(test_results, FailedPreConnection(max_rx_bytes))
    /\ pc' = "idle"
    /\ attempt' = 0
    /\ elapsed_bound' = FALSE
    /\ conn_ret' = NoReturn
    /\ last_response' = NoneResponse
    /\ waits' = NoWaits
    /\ UNCHANGED <<prog, sweepVars, saves, link_open, ble, mark, script, connection_stats, max_rx_bytes,
                   recovery_results, probe, assessment, pairingVars, classifyVars>>

\* Mutant: a fuzzed request that raised ends the campaign's probing.
AfterPerturb_abort(r) == IF r = Fault THEN "judge" ELSE "recover"

\* Mutant: a fuzzed request that raised is sent again.
AfterPerturb_retry(r) == IF r = Fault THEN "connected" ELSE "recover"

\* Lines 693-731: where test_length_vulnerability goes on after the fuzzed
\* request did r; the except clause of line 722 falls through to phase 3
\* like the try body does.
AfterPerturb(r) == IF r = Fault THEN "recover" ELSE "recover"

\* Phase 2 (lines 691-729): the one fuzzed length request.
Perturb ==
    /\ prog = "length" /\ pc = "connected" /\ PreConnected(conn_ret)
    /\ \E r \in FuzzReplies, s \in ProbeScripts :
        /\ last_response' = r
        /\ result' = PerturbResult(max_rx_bytes, r)
        /\ script' = [s EXCEPT !.fuzz = r]
        /\ pc' = AfterPerturb(r)
        /\ probe' = IF AfterPerturb(r) = "recover" THEN 1 ELSE probe
    /\ ble' = Called(ble, "length_request_fuzzed")
    /\ recovery_results' = <<>>
    /\ attempt' = 0
    /\ elapsed_bound' = FALSE
    /\ waits' = NoWaits
    /\ UNCHANGED <<prog, sweepVars, saves, link_open, mark, connection_stats, conn_ret, max_rx_bytes, test_results,
                   assessment, pairingVars, classifyVars>>

\* Mutant: the record keeps the verdict's status as it is.
ProbeStatus_raw(r) ==
    intelligent_analyze_response(r, ProbeOperation, <<"recovery_attempt", probe>>).status

\* The record a recovery probe appends for the reply r.
ProbeStatus(r) ==
    IF intelligent_analyze_response(r, ProbeOperation, <<"recovery_attempt", probe>>).status
           = "success"
    THEN "success" ELSE "failed"

\* Mutant: every probe is followed by a disconnect.
TerminatesAfter_always(status) == TRUE

\* Line 755: the probes after which termination_indication is called.
TerminatesAfter(status) == status = "success"

\* Phase 3 (lines 735-768): one recovery probe.  A probe after which
\* termination_indication is called may see it raise, which the same
\* except clause catches.
RecoveryProbe ==
    /\ prog = "length" /\ pc = "recover"
    /\ LET r == ConnectionReply(script, probe)
           rec == [attempt |-> probe, status |-> ProbeStatus(r)]
           exc == [attempt |-> probe, status |-> "exception"]
       IN  /\ last_response' = r
           /\ IF r = Fault THEN
                  /\ recovery_results' = Append(recovery_results, exc)
                  /\ ble' = Called(ble, "connection_request")
                  /\ link_open' = link_open
              ELSE IF TerminatesAfter(rec.status) THEN
                  /\ ble' = Called(Called(ble, "connection_request"), "termination_indication")
                  /\ \/ recovery_results' = Append(recovery_results, rec)
                     \/ recovery_results' = Append(Append(recovery_results, rec), exc)
                  /\ link_open' = FALSE
              ELSE
                  /\ recovery_results' = Append(recovery_results, rec)
                  /\ ble' = Called(ble, "connection_request")
                  /\ link_open' = link_open
    /\ IF probe < RecoveryProbes
       THEN probe' = probe + 1 /\ pc' = "recover"
       ELSE probe' = probe /\ pc' = "judge"
    /\ UNCHANGED <<prog, sweepVars, waits, saves, attempt, mark, script, connection_stats, elapsed_bound, conn_ret,
                   max_rx_bytes, result, test_results, assessment, pairingVars, classifyVars>>

\* Lines 770-785: the verdict, the return, and the sweep's append.
JudgeResult(res, recs) ==
    [res EXCEPT !.keys = @ \cup {"recovery_tests", "overall_result", "vulnerability"},
                !.recovery_tests = recs,
                !.overall_result = overall_result(recs),
                !.vulnerability = vulnerability(recs)]

Judge ==
    /\ prog = "length" /\ pc = "judge"
    /\ result' = JudgeResult(result, recovery_results)
    /\ test_results' = Append(test_results, JudgeResult(result, recovery_results))
    /\ pc' = "idle"
    /\ recovery_results' = <<>>
    /\ probe' = 0
    /\ last_response' = NoneResponse
    /\ conn_ret' = NoReturn
    /\ UNCHANGED <<prog, sweepVars, waits, saves, link_open, attempt, ble, mark, script, connection_stats, elapsed_bound,
                   max_rx_bytes, assessment, pairingVars, classifyVars>>

\* Locals of the sweep that an exception unwinding to main discards.
Unwound ==
    /\ attempt' = 0
    /\ waits' = NoWaits
    /\ elapsed_bound' = FALSE
    /\ conn_ret' = NoReturn
    /\ max_rx_bytes' = 0
    /\ result' = NoResult
    /\ recovery_results' = <<>>
    /\ probe' = 0
    /\ test_results' = <<>>
    /\ script' = NoScript

\* comprehensive_vulnerability_test lines 815-825: the capture is saved,
\* the results are analysed (analyze_test_results ends with
\* save_test_report) and returned.  A fault that escaped a save method
\* would go up to main.
FinishSweep ==
    /\ prog = "length" /\ pc = "idle"
    /\ Len(test_results) = Len(SweepValues)
    /\ ble' = Called(ble, "save_pcap")
    /\ \E r \in SaveReplies, w \in WriteOutcomes :
        /\ last_response' = r
        /\ IF save_pcap(r) = "raise" THEN
               /\ saves' = [saves EXCEPT !.pcap_filename = "ble_smart_test.pcap"]
               /\ assessment' = assessment
               /\ pc' = "raised"
           ELSE IF save_test_report(w) = "raise" THEN
               /\ saves' = [saves EXCEPT !.pcap_filename = "ble_smart_test.pcap",
                                         !.pcap = save_pcap(r)]
               /\ assessment' = analyze_test_results(test_results)
               /\ pc' = "raised"
           ELSE
               /\ saves' = [pcap_filename |-> "ble_smart_test.pcap",
                            pcap |-> save_pcap(r), report |-> save_test_report(w)]
               /\ assessment' = analyze_test_results(test_results)
               /\ pc' = "done"
    /\ UNCHANGED <<prog, sweepVars, waits, link_open, attempt, mark, script, connection_stats, elapsed_bound, conn_ret,
                   max_rx_bytes, result, recovery_results, probe, test_results,
                   pairingVars, classifyVars>>

\* A KeyboardInterrupt while the sweep runs: no `except Exception` of the
\* testers catches it, it unwinds to main (line 1021).
Interrupt ==
    /\ prog = "length"
    /\ pc \in {"idle", "connect", "connected", "recover", "judge"}
    /\ pc' = "interrupted"
    /\ Unwound
    /\ mark' = ble
    /\ last_response' = NoneResponse
    /\ UNCHANGED <<prog, sweepVars, saves, link_open, ble, connection_stats, assessment, pairingVars, classifyVars>>

\* main lines 1021-1053: the handlers for KeyboardInterrupt and Exception
\* save the capture (whatever goes wrong there is dropped by `except: pass`)
\* and the finally clause disconnects (a fault there is dropped too).
MainHandler ==
    /\ prog = "length" /\ pc \in {"interrupted", "raised"}
    /\ \E r \in SaveReplies :
        /\ last_response' = r
        /\ saves' = [saves EXCEPT
                        !.pcap_filename = IF pc = "interrupted"
                                          THEN "ble_smart_test_interrupted.pcap"
                                          ELSE "ble_smart_test_error.pcap",
                        !.pcap = IF save_pcap(r) = "raise" THEN @ ELSE save_pcap(r)]
    /\ ble' = Called(Called(ble, "save_pcap"), "termination_indication")
    /\ link_open' = FALSE
    /\ pc' = "exited"
    /\ Unwound
    /\ UNCHANGED <<prog, sweepVars, mark, connection_stats, assessment, pairingVars, classifyVars>>

\* main lines 1014-1019 and 1047-1053 after a sweep that returned: the
\* finally clause disconnects.
MainExit ==
    /\ prog = "length" /\ pc = "done"
    /\ ble' = Called(ble, "termination_indication")
    /\ link_open' = FALSE
    /\ pc' = "exited"
    /\ UNCHANGED <<prog, sweepVars, waits, saves, attempt, mark, script, last_response, lengthVars,
                   pairingVars, classifyVars>>

(***************************************************************************)
(* EnhancedBLEPairingTester                                                *)
(***************************************************************************)

\* The key sizes robust_pairing_test is run with.
KeySizes == {16, 7}

\* main line 518: robust_scan(max_retries=3); line 522: robust_connect(max_retries=2)
status_scan_retries == 3

status_connect_retries == 2

\* Mutant: no except clause, a fault is not a failed attempt.
EngineFailure_sentinel_only(r) == r = ERROR

\* Mutant: the result of the call is not looked at.
EngineFailure_never(r) == FALSE

\* An attempt of a retry engine fails on the sentinel and on a fault.
EngineFailure(r) == r = ERROR \/ r = Fault

\* Lines 201-219: whether the pairing response counts as accepted.
pairing_accepted(r) ==
    IF r = Fault \/ r.none THEN FALSE
    ELSE IF r.isstr THEN
        \/ Contains(r.text, "SM_Pairing_Response")
        \/ Contains(r.text, "Pairing") \/ Contains(r.text, "pairing")
        \/ Contains(r.text, "Security")
    ELSE Contains(r.text, "SM_Pairing_Response") \/ Contains(r.text, "Pairing_Response")

\* What robust_pairing_test returns: (pairing_accepted, details).
PairingReturn(accepted, scan_ok, connect_ok, resp) ==
    [returned |-> TRUE, accepted |-> accepted,
     keys |-> IF connect_ok THEN {"scan_success", "connect_success", "pairing_response"}
              ELSE {"scan_success", "connect_success"},
     scan_success |-> scan_ok, connect_success |-> connect_ok, pairing_response |-> resp]

\* robust_pairing_test(key_size) starts with robust_scan(max_retries=7).
StartPairing ==
    /\ prog = "pairing" /\ pc = "p_idle"
    /\ key_size' \in KeySizes
    /\ pc' = "scan"
    /\ attempt' = 1
    /\ mark' = ble
    /\ waits' = NoWaits
    /\ UNCHANGED <<prog, sweepVars, saves, link_open, ble, script, last_response, lengthVars, fails, scan_ret,
                   connect_ret, pairing_ret, classifyVars>>

\* One iteration of robust_scan's loop (lines 93-113); when the engine
\* gives up, robust_pairing_test returns at line 168.
ScanAttempt ==
    /\ prog = "pairing" /\ pc = "scan"
    /\ \E r \in EngineReplies :
        /\ last_response' = r
        /\ ble' = Called(ble, "scan_req")
        /\ IF ~EngineFailure(r) THEN
               /\ scan_ret' = [returned |-> TRUE, success |-> TRUE, result |-> r]
               /\ pc' = "pconnect"
               /\ attempt' = 1
               /\ UNCHANGED <<fails, pairing_ret, waits>>
           ELSE IF KeepTrying(attempt, max_scan_retries) THEN
               /\ attempt' = attempt + 1
               /\ fails' = [fails EXCEPT !.scan = @ + 1]
               /\ pc' = "scan"
               /\ waits' = [waits EXCEPT !.scan = @ \o SleepsAfterFailure(attempt, max_scan_retries, retry_delay)]
               /\ UNCHANGED <<scan_ret, pairing_ret>>
           ELSE
               /\ fails' = [fails EXCEPT !.scan = @ + 1]
               /\ scan_ret' = [returned |-> TRUE, success |-> FALSE, result |-> NoneResponse]
               /\ pairing_ret' = PairingReturn(FALSE, FALSE, FALSE, NoneResponse)
               /\ pc' = "p_done"
               /\ attempt' = attempt
               /\ waits' = [waits EXCEPT !.scan = @ \o SleepsAfterFailure(attempt, max_scan_retries, retry_delay)]
    /\ UNCHANGED <<prog, sweepVars, saves, link_open, mark, script, lengthVars, key_size, connect_ret, classifyVars>>

\* One iteration of robust_connect's loop (lines 126-146); when the engine
\* gives up, robust_pairing_test returns at line 176.
PairingConnectAttempt ==
    /\ prog = "pairing" /\ pc = "pconnect"
    /\ \E r \in EngineReplies :
        /\ last_response' = r
        /\ ble' = Called(ble, "connection_request")
        /\ IF ~EngineFailure(r) THEN
               /\ connect_ret' = [returned |-> TRUE, success |-> TRUE, result |-> r]
               /\ pc' = "pairing"
               /\ attempt' = attempt
               /\ link_open' = TRUE
               /\ UNCHANGED <<fails, pairing_ret, waits>>
           ELSE IF KeepTrying(attempt, max_connect_retries) THEN
               /\ attempt' = attempt + 1
               /\ fails' = [fails EXCEPT !.connect = @ + 1]
               /\ pc' = "pconnect"
               /\ waits' = [waits EXCEPT !.connect = @ \o SleepsAfterFailure(attempt, max_connect_retries, retry_delay)]
               /\ UNCHANGED <<connect_ret, pairing_ret, link_open>>
           ELSE
               /\ fails' = [fails EXCEPT !.connect = @ + 1]
               /\ connect_ret' = [returned |-> TRUE, success |-> FALSE, result |-> NoneResponse]
               /\ pairing_ret' = PairingReturn(FALSE, TRUE, FALSE, NoneResponse)
               /\ pc' = "p_done"
               /\ attempt' = attempt
               /\ link_open' = link_open
               /\ waits' = [waits EXCEPT !.connect = @ \o SleepsAfterFailure(attempt, max_connect_retries, retry_delay)]
    /\ UNCHANGED <<prog, sweepVars, saves, mark, script, lengthVars, key_size, scan_ret, classifyVars>>

\* What termination_indication does when called: it returns or raises.
TerminateReplies == {NoneResponse, Fault}

\* Mutant: the disconnect of the finally clause has no try of its own.
disconnect_no_except(t) == IF t = Fault THEN "raise" ELSE "completed"

\* Lines 224-232: what the disconnect of the finally clause gives the code
\* after it when termination_indication does t.
disconnect(t) == IF t = Fault THEN "swallowed" ELSE "completed"

\* Lines 183-238: the fuzzed pairing request, the check of its response,
\* the disconnect in the finally clause and the return.  An exception that
\* left the finally clause would leave robust_pairing_test and main.
PairingRequest ==
    /\ prog = "pairing" /\ pc = "pairing"
    /\ \E r \in PairingReplies, t \in TerminateReplies :
        /\ last_response' = r
        /\ IF disconnect(t) = "raise" THEN
               /\ pairing_ret' = pairing_ret
               /\ pc' = "p_exited"
           ELSE
               /\ pairing_ret' = PairingReturn(pairing_accepted(r), TRUE, TRUE,
                                               IF r = Fault THEN NoneResponse ELSE r)
               /\ pc' = "p_done"
    /\ ble' = Called(Called(ble, "pairing_request_fuzzed"), "termination_indication")
    /\ link_open' = FALSE
    /\ UNCHANGED <<prog, sweepVars, waits, saves, attempt, mark, script, lengthVars, key_size, fails, scan_ret,
                   connect_ret, classifyVars>>

\* A KeyboardInterrupt during run_comprehensive_pairing_test: nothing in
\* pairing_max_key_size_test.py catches it.
PairingInterrupt ==
    /\ prog = "pairing" /\ pc \in {"scan", "pconnect", "pairing"}
    /\ pc' = "p_interrupted"
    /\ attempt' = 0
    /\ key_size' = 0
    /\ last_response' = NoneResponse
    /\ mark' = ble
    /\ fails' = [scan |-> 0, connect |-> 0]
    /\ scan_ret' = [returned |-> FALSE, success |-> FALSE, result |-> NoneResponse]
    /\ connect_ret' = [returned |-> FALSE, success |-> FALSE, result |-> NoneResponse]
    /\ waits' = NoWaits
    /\ UNCHANGED <<prog, sweepVars, saves, link_open, ble, script, lengthVars, pairing_ret, classifyVars>>

\* main line 464 is in no try statement: the interrupt leaves main and the
\* process ends.
PairingAbort ==
    /\ prog = "pairing" /\ pc = "p_interrupted"
    /\ pc' = "p_exited"
    /\ UNCHANGED <<prog, sweepVars, waits, saves, attempt, collaboratorVars, lengthVars, pairingVars,
                   classifyVars>>

\* main lines 510-537, the final status check: robust_scan(max_retries=3)
\* makes n calls, and when it succeeded robust_connect(max_retries=2)
\* makes m calls, followed by termination_indication when it succeeded.
\* The values robust_pairing_test returned are out of scope by then.
FinalStatusCheck ==
    /\ prog = "pairing" /\ pc = "p_done"
    /\ \E n \in 1..status_scan_retries, scanned \in BOOLEAN :
       \E m \in 1..status_connect_retries, connected \in BOOLEAN :
        /\ ~scanned => n = status_scan_retries /\ m = 1 /\ ~connected
        /\ (scanned /\ ~connected) => m = status_connect_retries
        /\ ble' = [ble EXCEPT
                      !.scan_req = @ + n,
                      !.connection_request = @ + (IF scanned THEN m ELSE 0),
                      !.termination_indication = @ + (IF connected THEN 1 ELSE 0)]
        /\ mark' = ble'
        /\ last_response' = IF connected THEN FeatureReq ELSE ERROR
    /\ attempt' = 0
    /\ fails' = [scan |-> 0, connect |-> 0]
    /\ scan_ret' = [returned |-> FALSE, success |-> FALSE, result |-> NoneResponse]
    /\ connect_ret' = [returned |-> FALSE, success |-> FALSE, result |-> NoneResponse]
    /\ link_open' = FALSE
    /\ pc' = "p_checked"
    /\ waits' = NoWaits
    /\ UNCHANGED <<prog, sweepVars, saves, script, lengthVars, key_size, pairing_ret, classifyVars>>

\* EnhancedBLEPairingTester.save_pcap lines 399-407: what the call gives
\* its caller when the collaborator's save_pcap does r.
pairing_save_pcap(r) == IF r = Fault THEN "False" ELSE "True"

\* main line 542: the capture is saved and main ends.
PairingSavePcap ==
    /\ prog = "pairing" /\ pc = "p_checked"
    /\ \E r \in SaveReplies :
        /\ last_response' = r
        /\ saves' = [saves EXCEPT !.pcap = pairing_save_pcap(r)]
        /\ pc' = "p_end"
    /\ ble' = Called(ble, "save_pcap")
    /\ UNCHANGED <<prog, sweepVars, waits, link_open, attempt, mark, script, lengthVars, pairingVars, classifyVars>>

(***************************************************************************)
(* run_comprehensive_pairing_test on its own                               *)
(***************************************************************************)

\* The (start_key_size, end_key_size) the sweep is called with.
SweepBounds == {<<16, 14>>, <<7, 9>>, <<8, 8>>}

\* How the collaborator answers the attempts of one retry engine: it
\* succeeds from attempt k on and fails in one way before.
EngineScripts ==
    {[n \in 1..max_scan_retries |-> IF n >= k THEN FeatureReq ELSE f] :
        k \in {1, 2, max_scan_retries + 1}, f \in {ERROR, Fault}}

\* robust_scan / robust_connect (lines 93-113, 126-146) from attempt n on:
\* whether the engine succeeded, the calls it made, and its result.
RECURSIVE robust_engine(_, _)
robust_engine(replies, n) ==
    IF n > Len(replies)
    THEN [success |-> FALSE, calls |-> Len(replies), result |-> NoneResponse]
    ELSE IF ~EngineFailure(replies[n])
    THEN [success |-> TRUE, calls |-> n, result |-> replies[n]]
    ELSE robust_engine(replies, n + 1)

\* robust_pairing_test (lines 162-238) as a whole: what it returns when the
\* scan engine did scan, the connect engine conn and the pairing request r.
robust_pairing_test(scan, conn, r) ==
    IF ~scan.success THEN PairingReturn(FALSE, FALSE, FALSE, NoneResponse)
    ELSE IF ~conn.success THEN PairingReturn(FALSE, TRUE, FALSE, NoneResponse)
    ELSE PairingReturn(pairing_accepted(r), TRUE, TRUE, IF r = Fault THEN NoneResponse ELSE r)

\* Mutant: a rejection is counted, but not as a failed test.
update_stats_rejection_not_failed(stats, ret) ==
    IF ~ret.scan_success
    THEN [stats EXCEPT !.scan_failures = @ + 1, !.failed_tests = @ + 1]
    ELSE IF ~ret.connect_success
    THEN [stats EXCEPT !.connect_failures = @ + 1, !.failed_tests = @ + 1]
    ELSE IF ret.accepted
    THEN [stats EXCEPT !.successful_tests = @ + 1]
    ELSE [stats EXCEPT !.pairing_rejections = @ + 1]

\* Lines 283-301: the statistics after the campaign that returned ret.
update_stats(stats, ret) ==
    IF ~ret.scan_success
    THEN [stats EXCEPT !.scan_failures = @ + 1, !.failed_tests = @ + 1]
    ELSE IF ~ret.connect_success
    THEN [stats EXCEPT !.connect_failures = @ + 1, !.failed_tests = @ + 1]
    ELSE IF ret.accepted
    THEN [stats EXCEPT !.successful_tests = @ + 1]
    ELSE [stats EXCEPT !.pairing_rejections = @ + 1, !.failed_tests = @ + 1]

\* Lines 289-294: accepted_key_sizes after the campaign for key size k.
accepted_after(sizes, k, ret) ==
    IF ret.scan_success /\ ret.connect_success /\ ret.accepted
    THEN Append(sizes, k) ELSE sizes

\* Mutant: the loop stops before the lower bound.
SweepContinues_exclusive(current, end) == current > end

\* `while current_key_size >= end_key_size`
SweepContinues(current, end) == current >= end

\* Lines 256-271: the empty results, the swap of the bounds, the first key
\* size.
SweepStart ==
    /\ prog = "sweep" /\ pc = "s_call"
    /\ accepted_key_sizes' = <<>>
    /\ test_stats' = NoStats
    /\ IF start_key_size < end_key_size
       THEN start_key_size' = end_key_size /\ end_key_size' = start_key_size
       ELSE UNCHANGED <<start_key_size, end_key_size>>
    /\ current_key_size' = start_key_size'
    /\ pc' = "s_loop"
    /\ UNCHANGED <<prog, attempt, waits, saves, collaboratorVars, lengthVars, pairingVars,
                   classifyVars>>

\* One iteration of the loop (lines 273-308): the campaign for the current
\* key size, the update of the statistics, the next key size.
SweepCampaign ==
    /\ prog = "sweep" /\ pc = "s_loop"
    /\ SweepContinues(current_key_size, end_key_size)
    /\ \E sr \in EngineScripts, cr \in EngineScripts, r \in PairingReplies :
        LET scan == robust_engine(sr, 1)
            conn == robust_engine(cr, 1)
            ret == robust_pairing_test(scan, conn, r)
            paired == scan.success /\ conn.success
        IN  /\ pairing_ret' = ret
            /\ ble' = [ble EXCEPT
                          !.scan_req = @ + scan.calls,
                          !.connection_request = @ + (IF scan.success THEN conn.calls ELSE 0),
                          !.pairing_request_fuzzed = @ + (IF paired THEN 1 ELSE 0),
                          !.termination_indication = @ + (IF paired THEN 1 ELSE 0)]
            /\ last_response' = IF paired THEN r
                                ELSE IF scan.success THEN cr[conn.calls] ELSE sr[scan.calls]
            /\ test_stats' = update_stats([test_stats EXCEPT !.total_tests = @ + 1], ret)
            /\ accepted_key_sizes' = accepted_after(accepted_key_sizes, current_key_size, ret)
    /\ key_size' = current_key_size
    /\ mark' = ble
    /\ current_key_size' = current_key_size - 1
    /\ pc' = "s_loop"
    /\ UNCHANGED <<prog, attempt, waits, saves, script, link_open, lengthVars, fails, scan_ret,
                   connect_ret, start_key_size, end_key_size, classifyVars>>

\* Line 310: the loop is over, the sweep returns its two results.
SweepReturn ==
    /\ prog = "sweep" /\ pc = "s_loop"
    /\ ~SweepContinues(current_key_size, end_key_size)
    /\ pc' = "s_done"
    /\ UNCHANGED <<prog, attempt, waits, saves, collaboratorVars, lengthVars, pairingVars,
                   sweepVars, classifyVars>>

(***************************************************************************)
(* The analyzer applied on its own                                         *)
(***************************************************************************)

Texts == UNION {[1..n -> Atoms] : n \in 0..MaxLen}

Responses == {NoneResponse} \cup {StrResponse(t) : t \in Texts}

\* None and the three contexts the testers pass: attempt_1, attack_max_rx_0,
\* recovery_attempt_1.
Contexts == {NoContext, <<"attempt", 1>>, <<"attack_max_rx", 0>>, <<"recovery_attempt", 1>>}

Classify ==
    /\ prog = "classify" /\ pc = "input"
    /\ analysis' = intelligent_analyze_response(response, operation, context)
    /\ pc' = "classified"
    /\ UNCHANGED <<prog, sweepVars, waits, saves, attempt, collaboratorVars, lengthVars, pairingVars,
                   response, operation, context>>

(***************************************************************************)
(* Specifications                                                          *)
(***************************************************************************)

\* Either tester, from its construction on.
Init ==
    /\ prog \in {"length", "pairing"}
    /\ pc = IF prog = "length" THEN "idle" ELSE "p_idle"
    /\ InitCommon
    /\ InitSweepVars
    /\ InitClassifyVars

Next ==
    \/ StartCampaign
    \/ ConnectAttempt
    \/ PreConnectionFailed
    \/ Perturb
    \/ RecoveryProbe
    \/ Judge
    \/ FinishSweep
    \/ StartPairing
    \/ ScanAttempt
    \/ PairingConnectAttempt
    \/ PairingRequest
    \/ Interrupt
    \/ MainHandler
    \/ MainExit
    \/ PairingInterrupt
    \/ PairingAbort
    \/ FinalStatusCheck
    \/ PairingSavePcap

Spec == Init /\ [][Next]_vars

\* intelligent_analyze_response on every response, operation and context.
InitClassify ==
    /\ prog = "classify"
    /\ pc = "input"
    /\ InitCommon
    /\ InitSweepVars
    /\ response \in Responses
    /\ operation \in Operations
    /\ context \in Contexts
    /\ analysis = NoAnalysis

NextClassify == Classify

SpecClassify == InitClassify /\ [][NextClassify]_vars

\* run_comprehensive_pairing_test for every pair of bounds.
InitSweep ==
    /\ prog = "sweep"
    /\ pc = "s_call"
    /\ InitCommon
    /\ InitClassifyVars
    /\ \E b \in SweepBounds : start_key_size = b[1] /\ end_key_size = b[2]
    /\ current_key_size = 0
    /\ accepted_key_sizes = <<>>
    /\ test_stats = NoStats

NextSweep ==
    \/ SweepStart
    \/ SweepCampaign
    \/ SweepReturn

SpecSweep == InitSweep /\ [][NextSweep]_vars

\* The loop of the sweep is not suspended for ever.
SpecSweepLive == SpecSweep /\ WF_vars(NextSweep)

(***************************************************************************)
(* Properties                                                              *)
(***************************************************************************)

\* The elements of a sequence.
Range(seq) == {seq[j] : j \in 1..Len(seq)}

\* The result of the campaign that returned last.
LastResult == test_results[Len(test_results)]

\* A campaign of the length sweep has just returned its result.
CampaignReturned == prog = "length" /\ pc = "idle" /\ Len(test_results) > 0

\* The S/K rule: res is the verdict for the recovery records recs.
VerdictRule(recs, res) ==
    LET S == Cardinality({j \in 1..Len(recs) : recs[j].status = "success"})
        K == Len(recs)
    IN  /\ S = 0 => res = "device_crashed"
        /\ 0 < S /\ S < K => res = "partial_recovery"
        /\ 0 < S /\ S = K => res = "full_recovery"

\* Every list of RecoveryProbes recovery records.
RecoveryLists ==
    {[j \in 1..RecoveryProbes |-> [attempt |-> j, status |-> f[j]]] :
        f \in [1..RecoveryProbes -> {"success", "failed", "exception"}]}

\* C1: the overall result of every campaign that passed pre-connection is
\* the S/K rule's verdict for its recorded recovery outcomes (failed and
\* exception records both count as not recovered); and the judging step
\* gives the rule's verdict for every list of recovery records.
C1_OverallResultFromRecoveries ==
    /\ \A j \in 1..Len(test_results) :
          "recovery_tests" \in test_results[j].keys =>
              /\ "overall_result" \in test_results[j].keys
              /\ VerdictRule(test_results[j].recovery_tests, test_results[j].overall_result)
    /\ (prog = "length" /\ pc = "judge" /\ test_results = <<>>) =>
          \A recs \in RecoveryLists :
              VerdictRule(recs, JudgeResult(result, recs).overall_result)

C1_Witness ==
    /\ CampaignReturned
    /\ "recovery_tests" \in LastResult.keys
    /\ {r.status : r \in Range(LastResult.recovery_tests)} = {"failed", "exception"}
    /\ LastResult.overall_result = "device_crashed"

\* C2: a campaign whose seven recovery probes are all answered with the
\* feature-request response records seven successes and returns
\* full_recovery; one with exactly three such probes returns
\* partial_recovery.
C2_AnsweredProbesCountAsRecovered ==
    (CampaignReturned /\ "recovery_tests" \in LastResult.keys) =>
        /\ script.good = 1..RecoveryProbes =>
              /\ Len(LastResult.recovery_tests) = RecoveryProbes
              /\ \A r \in Range(LastResult.recovery_tests) : r.status = "success"
              /\ LastResult.overall_result = "full_recovery"
        /\ Cardinality(script.good) = 3 =>
              LastResult.overall_result = "partial_recovery"

\* C3: once smart_connection_test has reported failure the campaign calls
\* neither length_request_fuzzed nor connection_request again and records
\* no recovery probe; a pairing campaign whose scan or connect failed never
\* calls pairing_request_fuzzed (nor, after a failed scan, connection_request).
C3_NoPerturbAfterFailedPreConnect ==
    /\ (prog = "length" /\ conn_ret.returned /\ ~conn_ret.connected) =>
          /\ ble.length_request_fuzzed = mark.length_request_fuzzed
          /\ ble.connection_request = mark.connection_request + max_retries
          /\ recovery_results = <<>>
    /\ (CampaignReturned /\ "recovery_tests" \notin LastResult.keys) =>
          /\ ble.length_request_fuzzed = mark.length_request_fuzzed
          /\ ble.connection_request = mark.connection_request + max_retries
    /\ (prog = "pairing" /\ pairing_ret.returned
            /\ ~(pairing_ret.scan_success /\ pairing_ret.connect_success)) =>
          ble.pairing_request_fuzzed = mark.pairing_request_fuzzed
    /\ (prog = "pairing" /\ scan_ret.returned /\ ~scan_ret.success) =>
          ble.connection_request = mark.connection_request

C3_Witness ==
    /\ CampaignReturned
    /\ Len(test_results) = 2
    /\ LastResult.result = "failed_pre_connection"
    /\ ble.length_request_fuzzed = 1

\* C4: the result of a campaign whose pre-connection failed has
\* overall_result = failed_pre_connection, as analyze_test_results and the
\* report read it, and no recovery probes.
C4_FailedPreConnectionOverallResult ==
    \A j \in 1..Len(test_results) :
        test_results[j].result = "failed_pre_connection" =>
            /\ Get(test_results[j], "overall_result", "unknown") = "failed_pre_connection"
            /\ "recovery_tests" \notin test_results[j].keys

\* C5: robust_scan and robust_connect call the collaborator at most
\* max_retries times, every call before the last one of a run failed, a run
\* that succeeds made one call more than it saw failures and returns the
\* result of its last call, and a run that gives up made max_retries calls.
C5_RetryEngineStopsAtFirstSuccess ==
    prog = "pairing" =>
        LET scans == ble.scan_req - mark.scan_req
            conns == ble.connection_request - mark.connection_request
        IN  /\ scans <= max_scan_retries /\ conns <= max_connect_retries
            /\ pc = "scan" => scans = fails.scan /\ attempt = scans + 1
            /\ pc = "pconnect" => conns = fails.connect /\ attempt = conns + 1
            /\ (scan_ret.returned /\ scan_ret.success) =>
                  /\ scans = fails.scan + 1
                  /\ scan_ret.result \notin {ERROR, Fault}
                  /\ conns = 0 => scan_ret.result = last_response
            /\ (scan_ret.returned /\ ~scan_ret.success) =>
                  scans = max_scan_retries /\ fails.scan = max_scan_retries
            /\ (connect_ret.returned /\ connect_ret.success) =>
                  /\ conns = fails.connect + 1
                  /\ connect_ret.result \notin {ERROR, Fault}
                  /\ pc = "pairing" => connect_ret.result = last_response
            /\ (connect_ret.returned /\ ~connect_ret.success) =>
                  conns = max_connect_retries /\ fails.connect = max_connect_retries

C5_Witness ==
    /\ prog = "pairing"
    /\ scan_ret.returned /\ scan_ret.success
    /\ fails.scan = 6 /\ ble.scan_req = 7
    /\ connect_ret.returned /\ connect_ret.success
    /\ fails.connect = 6 /\ ble.connection_request = 7

\* C6: in robust_scan and robust_connect an attempt that raises a fault does
\* what an attempt that returns the sentinel does: it uses up one attempt,
\* the next attempt follows, and after the last attempt the engine returns
\* (False, None); the fault goes no further.
C6_FaultIsAFailedAttempt ==
    [][(prog = "pairing" /\ pc \in {"scan", "pconnect"} /\ last_response' \in {Fault, ERROR}) =>
          IF attempt < max_scan_retries
          THEN pc' = pc /\ attempt' = attempt + 1
          ELSE /\ pc' = "p_done"
               /\ pairing_ret'.returned /\ ~pairing_ret'.accepted
               /\ pc = "scan" =>
                     scan_ret' = [returned |-> TRUE, success |-> FALSE, result |-> NoneResponse]
               /\ pc = "pconnect" =>
                     connect_ret' = [returned |-> TRUE, success |-> FALSE, result |-> NoneResponse]
      ]_vars

C6_Witness ==
    /\ prog = "pairing" /\ pc = "p_done"
    /\ connect_ret = [returned |-> TRUE, success |-> FALSE, result |-> NoneResponse]
    /\ last_response = Fault

\* C7: smart_connection_test never raises: when none of its attempts is
\* accepted it returns (False, None, None), in every campaign of the session.
C7_SmartConnectionTestNeverRaises ==
    prog = "length" =>
        /\ pc # "raised"
        /\ (conn_ret.returned /\ ~conn_ret.connected) =>
              conn_ret.response = NoneResponse /\ conn_ret.analysis = NoAnalysis

\* C8: the sweep always ends having run its three campaigns, max_rx_bytes 0,
\* 3000 and 251, and returns three results.
C8_SweepRunsThreeCampaigns ==
    (prog = "length" /\ pc \in {"done", "raised"}) =>
        /\ pc = "done"
        /\ Len(test_results) = 3
        /\ \A j \in 1..Len(test_results) : test_results[j].max_rx_bytes = SweepValues[j]

\* C9: a campaign whose pre-connection succeeded, whose fuzzed length
\* request was answered with an empty text and whose recovery probes all
\* failed returns device_crashed, with the silent-failure hint among the
\* attack response's vulnerability hints.
C9_SilentCrashScenario ==
    (CampaignReturned /\ "recovery_tests" \in LastResult.keys
        /\ script.fuzz = StrResponse(<<>>) /\ script.good = {}) =>
        /\ LastResult.overall_result = "device_crashed"
        /\ "response_analysis" \in LastResult.keys
        /\ <<"Device may not handle abnormal length requests">>
              \in Range(LastResult.response_analysis.vulnerability_hints)

C9_Witness ==
    /\ CampaignReturned /\ "recovery_tests" \in LastResult.keys
    /\ script.fuzz = StrResponse(<<>>) /\ script.good = {} /\ script.fail = "sentinel"
    /\ Len(LastResult.recovery_tests) = RecoveryProbes
    /\ LastResult.vulnerability_indicated

\* C10: a connection_request response that holds LL_SLAVE_FEATURE_REQ and no
\* failure token is classified success, also when hexadecimal tokens were
\* extracted from it as error codes.
C10_FeatureRequestMeansConnected ==
    (prog = "classify" /\ pc = "classified" /\ ~response.none
        /\ operation = "connection_request"
        /\ Contains(response.text, "LL_SLAVE_FEATURE_REQ")
        /\ \A f \in Range(CONNECTION_FAILURE_INDICATORS) : ~Contains(response.text, f)) =>
        analysis.status = "success"

C10_Witness ==
    /\ prog = "classify" /\ pc = "classified"
    /\ operation = "connection_request"
    /\ response = StrResponse(<<"0x3E", "LL_SLAVE_FEATURE_REQ">>)
    /\ analysis.is_error /\ Len(analysis.error_details) = 1
    /\ analysis.status = "success"

\* The analyzer has returned its verdict on the response.
Classified == prog = "classify" /\ pc = "classified"

\* The six statuses of print_analysis's table, by severity.
SeverityOrder ==
    <<"success", "partial_success", "warning", "error", "no_response", "unknown">>

\* The words that hold a hexadecimal token of two to four digits.
HexWords == {"0x3E", "0x99"}

HasHexToken(text) == \E i \in 1..Len(text) : text[i] \in HexWords

\* The text reports a zero receive or transmit byte count.
ReportsZeroCount(text) ==
    \E i \in 1..Len(text) : text[i] \in {"max_rx_bytes=0", "max_tx_bytes=0"}

\* C11: for an absent response the verdict is no_response with is_error
\* true whatever the operation, and nothing else has run: no indicator, no
\* hint, no extracted code, the fixed recommended action.
C11_AbsentResponseShortCircuits ==
    (Classified /\ response.none) =>
        /\ analysis.status = "no_response"
        /\ analysis.is_error
        /\ analysis.error_details = <<<<"No response from device">>>>
        /\ analysis.success_indicators = <<>>
        /\ analysis.warning_indicators = <<>>
        /\ analysis.vulnerability_hints = <<>>
        /\ analysis.recommended_action = "Check if device is online or restart the device"
        /\ analysis.operation = operation

C11_Witness ==
    /\ Classified /\ response.none
    /\ operation = "length_request"
    /\ context = <<"attack_max_rx", 0>>
    /\ analysis.status = "no_response"

\* C12 as stated: every length_request response that reports a zero byte
\* count has a hint and the status success.
C12_ZeroCountMeansSuccess ==
    (Classified /\ ~response.none /\ operation = "length_request"
        /\ ReportsZeroCount(response.text)) =>
        /\ analysis.vulnerability_hints # <<>>
        /\ analysis.status = "success"

\* C12 amended: every length_request response that reports a zero byte count
\* has a hint, and its status is success when the text also holds
\* LL_LENGTH_RSP.
C12_ZeroCountInLengthResponse ==
    (Classified /\ ~response.none /\ operation = "length_request"
        /\ ReportsZeroCount(response.text)) =>
        /\ analysis.vulnerability_hints # <<>>
        /\ (\E i \in 1..Len(response.text) : response.text[i] = "LL_LENGTH_RSP") =>
              analysis.status = "success"

C12_Witness ==
    /\ Classified /\ operation = "length_request"
    /\ response = StrResponse(<<"LL_LENGTH_RSP", "max_tx_bytes=0">>)
    /\ analysis.status = "success"
    /\ Len(analysis.vulnerability_hints) = 2

\* C13 as stated: a verdict with status error has error details (or the
\* response was absent).
C13_ErrorHasDetails ==
    (Classified /\ analysis.status = "error") =>
        (analysis.error_details # <<>> \/ response.none)

\* C13 amended: a verdict with status error has error details or a warning
\* indicator that names the failure token the operation's branch matched.
C13_ErrorHasDetailsOrWarning ==
    (Classified /\ analysis.status = "error") =>
        (analysis.error_details # <<>> \/ analysis.warning_indicators # <<>>)

C13_Witness ==
    /\ Classified /\ operation = "connection_request"
    /\ response = StrResponse(<<"ERROR">>)
    /\ analysis.status = "error"
    /\ analysis.error_details = <<>>
    /\ analysis.warning_indicators = <<<<"Found connection failure indicator", "ERROR">>>>

\* C14 as stated: is_error is true exactly when a hexadecimal token was
\* extracted from the response text.
C14_IsErrorIffCodeExtracted ==
    Classified => (analysis.is_error <=> HasHexToken(response.text))

\* C14 amended: for a response that is not absent, is_error is true exactly
\* when a hexadecimal token was extracted from its text, whatever the
\* status; for an absent response is_error is true and no code is extracted.
C14_IsErrorIffCodeExtractedOrAbsent ==
    Classified =>
        IF response.none
        THEN analysis.is_error /\ analysis.error_details = <<<<"No response from device">>>>
        ELSE /\ analysis.is_error <=> HasHexToken(response.text)
             /\ Len(analysis.error_details)
                    = Cardinality({i \in 1..Len(response.text) : response.text[i] \in HexWords})

C14_Witness ==
    /\ Classified /\ operation = "length_request"
    /\ response = StrResponse(<<"LL_LENGTH_RSP", "0x99">>)
    /\ analysis.is_error
    /\ analysis.error_details = <<<<"0x99", 153, "Unknown error code">>>>
    /\ analysis.status = "success"

\* C15: the status of every verdict is one of the six statuses of
\* SeverityOrder, and print_analysis returns its position there, 0 to 5.
C15_StatusIsOneOfSix ==
    Classified =>
        \E k \in 1..Len(SeverityOrder) :
            analysis.status = SeverityOrder[k] /\ print_analysis(analysis) = k - 1

\* C16: when a code was extracted from a response that is not absent, the
\* final status is the operation branch's success or partial_success if it
\* set one, and error otherwise.
C16_ErrorCodeForcesError ==
    (Classified /\ ~response.none /\ analysis.is_error) =>
        LET branch == analyze_by_operation(response.text, operation).status
        IN  IF branch \in {"success", "partial_success"}
            THEN analysis.status = branch
            ELSE analysis.status = "error"

\* Recovery records of RecoveryProbes probes of which the first k succeeded.
RecoveriesWith(k) ==
    [j \in 1..RecoveryProbes |->
        [attempt |-> j, status |-> IF j <= k THEN "success" ELSE "failed"]]

\* Results test_length_vulnerability can return: a failed pre-connection,
\* and a judged campaign with no, three or seven successful recoveries.
SampleResults ==
    {FailedPreConnection(0)}
        \cup {JudgeResult(PerturbResult(0, StrResponse(<<"LL_LENGTH_RSP">>)), RecoveriesWith(k)) :
                k \in {0, 3, RecoveryProbes}}

\* Every sweep of one to three such results, in every order.
SampleSweeps == UNION {[1..n -> SampleResults] : n \in 1..Len(SweepValues)}

\* Some campaign of the sweep ended device_crashed or partial_recovery.
HasFinding(results) ==
    \E j \in 1..Len(results) :
        Get(results[j], "overall_result", "unknown") \in {"device_crashed", "partial_recovery"}

\* C17: when some campaign of the sweep ended device_crashed or
\* partial_recovery, analyze_test_results selects 'vulnerabilities found',
\* whatever the other campaigns' results and the order of the list: for
\* the sweep the session ran, and for every sweep of SampleSweeps.
C17_FindingsDominateAssessment ==
    /\ (prog = "length" /\ pc = "done" /\ HasFinding(test_results)) =>
          assessment = "Security vulnerabilities found"
    /\ (prog = "length" /\ pc = "connect" /\ test_results = <<>> /\ attempt = 1) =>
          \A sweep \in SampleSweeps :
              HasFinding(sweep) => analyze_test_results(sweep) = "Security vulnerabilities found"

C17_Witness ==
    /\ prog = "length" /\ pc = "done"
    /\ test_results[1].result = "failed_pre_connection"
    /\ "overall_result" \in test_results[2].keys
    /\ test_results[2].overall_result = "device_crashed"
    /\ test_results[3].result = "failed_pre_connection"
    /\ assessment = "Security vulnerabilities found"

\* C18: connection_stats.total_attempts is the number of connection_request
\* calls the session has made, pre-connection attempts and recovery probes,
\* returning or raising.
C18_TotalAttemptsCountsEveryCall ==
    prog = "length" => connection_stats.total_attempts = ble.connection_request

\* C19: in both entry points, the step from an aborted sweep (after a
\* keyboard interrupt or an escaped fault) to the end of the process calls
\* the collaborator's save_pcap.
C19_CaptureSavedOnAbort ==
    [][(pc \in {"interrupted", "raised", "p_interrupted"} /\ pc' \in {"exited", "p_exited"}) =>
          ble'.save_pcap = ble.save_pcap + 1]_vars

\* C20: a step that calls the collaborator's save_pcap (the end of the
\* sweep with its report, main's handlers, the pairing main's save) never
\* ends in a raised fault: the method reports False exactly when the
\* collaborator's save raised, the report is written or its failure
\* logged, and results, verdict inputs and counters are as before.
C20_SaveFailuresAreSwallowed ==
    [][(ble'.save_pcap # ble.save_pcap) =>
          /\ pc' \in {"done", "exited", "p_end"}
          /\ saves'.pcap = IF last_response' = Fault THEN "False" ELSE "True"
          /\ connection_stats' = connection_stats
          /\ pairing_ret' = pairing_ret
          /\ pc' = "done" =>
                /\ test_results' = test_results
                /\ saves'.report \in {"written", "failed"}
                /\ assessment' = analyze_test_results(test_results)
      ]_vars

C20_Witness ==
    /\ prog = "length" /\ pc = "done"
    /\ Len(test_results) = Len(SweepValues)
    /\ last_response = Fault
    /\ saves = [pcap_filename |-> "ble_smart_test.pcap", pcap |-> "False", report |-> "failed"]

(***************************************************************************)
(* Claims C21..C30                                                         *)
(***************************************************************************)

\* The codes of the extracted error details, in their order.
ExtractedCodes(details) == [i \in 1..Len(details) |-> details[i][1]]

\* The hex tokens of a text, left to right, repeated ones kept.
HexTokens(text) == SelectSeq(text, LAMBDA w : w \in HexWords)

\* C21: the error details of a response are a function of its text alone:
\* one entry for each hex token of the text, in the order of the tokens,
\* a token that occurs twice giving two entries - whatever the operation
\* and the context.
C21_ErrorCodesInTextOrder ==
    (Classified /\ ~response.none) =>
        /\ ExtractedCodes(analysis.error_details) = HexTokens(response.text)
        /\ \A i \in 1..Len(analysis.error_details) :
               analysis.error_details[i] = ErrorDetail(analysis.error_details[i][1])

\* Two different tokens, the unknown code first, were extracted in order.
C21_Witness ==
    /\ Classified /\ ~response.none
    /\ response.text = <<"0x99", "0x3E">>
    /\ ExtractedCodes(analysis.error_details) = <<"0x99", "0x3E">>

\* A repeated token was extracted twice.
C21_WitnessRepeated ==
    /\ Classified /\ ~response.none
    /\ response.text = <<"0x3E", "0x3E">>
    /\ Len(analysis.error_details) = 2

\* Fuzzed length requests of the running campaign so far.
FuzzedSoFar == ble.length_request_fuzzed - mark.length_request_fuzzed

\* C22: a campaign sends its fuzzed length request exactly once: none while
\* it pre-connects, one from the first recovery probe on; the request is
\* sent after a pre-connection that succeeded, with no recovery probe made
\* yet, and the step that sends it leads to the first recovery probe
\* whatever the request returned or raised.
C22_ExactlyOneFuzzedRequest ==
    /\ [](prog = "length" =>
            /\ pc \in {"connect", "connected"} => FuzzedSoFar = 0
            /\ pc \in {"recover", "judge"} => FuzzedSoFar = 1
            /\ (CampaignReturned /\ "recovery_tests" \in LastResult.keys) => FuzzedSoFar = 1)
    /\ [][(prog = "length" /\ ble'.length_request_fuzzed # ble.length_request_fuzzed) =>
            /\ pc = "connected" /\ conn_ret.returned /\ conn_ret.connected
            /\ ble'.length_request_fuzzed = ble.length_request_fuzzed + 1
            /\ ble'.connection_request = ble.connection_request
            /\ recovery_results' = <<>>
            /\ pc' = "recover" /\ probe' = 1]_vars

\* The fuzzed request raised; the campaign went on to its first probe
\* having sent it once.
C22_Witness ==
    /\ prog = "length" /\ pc = "recover" /\ probe = 1
    /\ last_response = Fault
    /\ result.result = "exception"
    /\ FuzzedSoFar = 1

\* recs holds one record for each of the seven probes, in order, each with
\* one of the three statuses.
SevenRecords(recs) ==
    /\ Len(recs) = 7
    /\ \A j \in 1..Len(recs) :
          /\ recs[j].attempt = j
          /\ recs[j].status \in {"success", "failed", "exception"}

SuccessRecords(recs) == {j \in 1..Len(recs) : recs[j].status = "success"}

C25_OneLinkAtATime ==
    [][(ble'.connection_request # ble.connection_request) => ~link_open]_vars

\* Some pattern of the list occurs in the text.
AnyOf(pats, text) == \E j \in 1..Len(pats) : Contains(text, pats[j])

\* The classification of a connection attempt's response.
ConnectionCase ==
    Classified /\ operation = "connection_request" /\ ~response.none

\* C26: a connection attempt's response is classified by the first rule
\* that matches: (1) a success indicator gives success, also when a failure
\* token is present; (2) else a failure token gives error; (3) else the
\* name of a link-layer connection PDU gives success with the warning of a
\* non-standard format; (4) else the BTLE/BLE marker gives partial_success
\* with a warning; (5) else the status is unknown, or error when (and only
\* when) an error code was extracted.
C26_ConnectionRulesInOrder ==
    ConnectionCase =>
        LET text == response.text
        IN  IF AnyOf(CONNECTION_SUCCESS_INDICATORS, text) THEN
                analysis.status = "success"
            ELSE IF AnyOf(CONNECTION_FAILURE_INDICATORS, text) THEN
                analysis.status = "error"
            ELSE IF AnyOf(LL_PDU_NAMES, text) THEN
                /\ analysis.status = "success"
                /\ <<"Connection response format non-standard, but Link Layer interaction exists">>
                       \in Range(analysis.warning_indicators)
            ELSE IF Contains(text, "BTLE") \/ Contains(text, "BLE") THEN
                /\ analysis.status = "partial_success"
                /\ analysis.warning_indicators # <<>>
            ELSE
                /\ analysis.status \in {"unknown", "error"}
                /\ analysis.status = "error" <=> analysis.error_details # <<>>

\* A success indicator together with a failure token: success.
C26_Witness ==
    /\ ConnectionCase
    /\ response.text = <<"ERROR", "LL_SLAVE_FEATURE_REQ">>
    /\ analysis.status = "success"

\* Rule (3): a PDU name that is no success indicator.
C26_WitnessPdu ==
    /\ ConnectionCase
    /\ response.text = <<"LL_TERMINATE_IND", "BTLE">>
    /\ analysis.status = "success"
    /\ analysis.warning_indicators # <<>>

\* Rule (4): the frame marker alone.
C26_WitnessFrame ==
    /\ ConnectionCase
    /\ response.text = <<"BTLE">>
    /\ analysis.status = "partial_success"

\* Rule (5): nothing matches, and an error code makes it an error.
C26_WitnessFallback ==
    /\ ConnectionCase
    /\ response.text = <<"Empty", "0x99">>
    /\ analysis.status = "error"

\* The failure words, in lower case.
FailureWords == {"error", "failed", "reject", "timeout"}

\* C27: a connection attempt's response without a success indicator that
\* holds one of the failure words in any letter case is classified error.
C27_FailureWordsInAnyCase ==
    (ConnectionCase
        /\ ~AnyOf(CONNECTION_SUCCESS_INDICATORS, response.text)
        /\ \E w \in FailureWords : LowerContains(response.text, w)) =>
        analysis.status = "error"

\* A text with no word but blanks, or the text the collaborator prints for
\* an empty packet.
SilentText(text) ==
    \/ text = <<"Empty">>
    \/ \A j \in 1..Len(text) : text[j] = " "

\* The hint that goes with an unanswered length request.
SilenceHint == <<"Device may not handle abnormal length requests">>

\* C28 as stated: for the length-fuzz operation an absent response and an
\* empty-text response both give no_response with the hint that the device
\* may not handle abnormal length requests.
C28_SilenceGivesHint ==
    (Classified /\ operation = "length_request"
        /\ (response.none \/ SilentText(response.text))) =>
        /\ analysis.status = "no_response"
        /\ SilenceHint \in Range(analysis.vulnerability_hints)

\* C28 amended: for the length-fuzz operation an empty-text response gives
\* no_response with the hint that the device may not handle abnormal length
\* requests; an absent response gives no_response with is_error true and
\* no vulnerability hint.
C28_EmptyTextGivesHint ==
    (Classified /\ operation = "length_request") =>
        /\ (~response.none /\ SilentText(response.text)) =>
              /\ analysis.status = "no_response"
              /\ SilenceHint \in Range(analysis.vulnerability_hints)
        /\ response.none =>
              /\ analysis.status = "no_response"
              /\ analysis.is_error
              /\ analysis.vulnerability_hints = <<>>

\* A response of blanks to the fuzzed length request got the hint.
C28_Witness ==
    /\ Classified /\ operation = "length_request"
    /\ ~response.none /\ response.text = <<" ", " ">>
    /\ analysis.status = "no_response"
    /\ SilenceHint \in Range(analysis.vulnerability_hints)

\* A pairing campaign is running or has just returned.
InPairingCampaign == prog = "pairing" /\ pc \in {"scan", "pconnect", "pairing", "p_done"}

\* Calls of the collaborator's method m by the running campaign.
CallsSoFar(m) == ble[m] - mark[m]

\* C29: a pairing campaign calls the collaborator in the order scan,
\* connect, fuzzed pairing request, terminate: connection_request is called
\* only after a scan attempt of the campaign succeeded (returned neither
\* the error sentinel nor a fault), pairing_request_fuzzed only after a
\* connect attempt succeeded and at most once in the campaign, and no more
\* scan or connect call follows it.
C29_ScanConnectPairInOrder ==
    /\ [](InPairingCampaign =>
            /\ CallsSoFar("pairing_request_fuzzed") <= 1
            /\ CallsSoFar("connection_request") > 0 => CallsSoFar("scan_req") > 0
            /\ CallsSoFar("pairing_request_fuzzed") > 0 =>
                  CallsSoFar("connection_request") > 0 /\ pc = "p_done")
    /\ [][(prog = "pairing" /\ pc \in {"scan", "pconnect", "pairing"}) =>
            /\ ble'.connection_request # ble.connection_request =>
                  /\ scan_ret.returned /\ scan_ret.success
                  /\ scan_ret.result \notin {ERROR, Fault}
                  /\ ble'.scan_req = ble.scan_req
            /\ ble'.pairing_request_fuzzed # ble.pairing_request_fuzzed =>
                  /\ connect_ret.returned /\ connect_ret.success
                  /\ connect_ret.result \notin {ERROR, Fault}
                  /\ ble'.pairing_request_fuzzed = ble.pairing_request_fuzzed + 1
                  /\ ble'.scan_req = ble.scan_req
                  /\ ble'.connection_request = ble.connection_request
            /\ ble'.termination_indication # ble.termination_indication =>
                  ble'.pairing_request_fuzzed # ble.pairing_request_fuzzed]_vars

\* A campaign that scanned twice and connected twice before it sent its one
\* pairing request.
C29_Witness ==
    /\ prog = "pairing" /\ pc = "p_done"
    /\ CallsSoFar("scan_req") = 2
    /\ CallsSoFar("connection_request") = 2
    /\ CallsSoFar("pairing_request_fuzzed") = 1
    /\ pairing_ret.accepted

\* C30: a pairing campaign requests termination exactly once when its
\* connect succeeded, also when the pairing request raised, and never when
\* its scan or its connect failed; whatever the pairing request and the
\* termination request raise, robust_pairing_test returns its pair
\* (accepted, details), with accepted false when the pairing request raised.
C30_TerminateOnceAfterConnect ==
    /\ [](prog = "pairing" =>
            /\ pc \in {"scan", "pconnect", "pairing"} =>
                  CallsSoFar("termination_indication") = 0
            /\ pc = "p_done" =>
                  /\ pairing_ret.returned
                  /\ CallsSoFar("termination_indication")
                        = (IF pairing_ret.scan_success /\ pairing_ret.connect_success
                           THEN 1 ELSE 0))
    /\ [][(prog = "pairing" /\ ble'.pairing_request_fuzzed # ble.pairing_request_fuzzed) =>
            /\ pc' = "p_done"
            /\ pairing_ret'.returned /\ pairing_ret'.connect_success
            /\ ble'.termination_indication = ble.termination_indication + 1
            /\ last_response' = Fault => ~pairing_ret'.accepted]_vars

\* The pairing request raised: the campaign disconnected once and returned.
C30_Witness ==
    /\ prog = "pairing" /\ pc = "p_done"
    /\ last_response = Fault
    /\ pairing_ret.returned /\ pairing_ret.connect_success /\ ~pairing_ret.accepted
    /\ CallsSoFar("termination_indication") = 1

\* The connect failed: the campaign returned without a termination request.
C30_WitnessConnectFailed ==
    /\ prog = "pairing" /\ pc = "p_done"
    /\ pairing_ret.returned /\ pairing_ret.scan_success /\ ~pairing_ret.connect_success
    /\ CallsSoFar("connection_request") = max_connect_retries
    /\ CallsSoFar("termination_indication") = 0

(***************************************************************************)
(* Claims C31..C40                                                         *)
(***************************************************************************)

\* n sleeps of the same length d.
FixedDelays(n, d) == [j \in 1..n |-> d]

C31_WitnessExhausted ==
    /\ prog = "length" /\ pc = "connected" /\ ~conn_ret.connected
    /\ Len(waits.connect) = max_retries - 1

\* C32: the session counters of smart_connection_test always satisfy
\* total_attempts = successful + failed, and no counter ever decreases.
C32_CountersAddUp ==
    /\ [](prog = "length" =>
            connection_stats.total_attempts
                = connection_stats.successful + connection_stats.failed)
    /\ [][/\ connection_stats'.total_attempts >= connection_stats.total_attempts
          /\ connection_stats'.successful >= connection_stats.successful
          /\ connection_stats'.failed >= connection_stats.failed]_vars

\* Some campaign of the list reached the recovery phase and had fewer
\* successful probes than probes.
SomeIncompleteRecovery(results) ==
    \E j \in 1..Len(results) :
        /\ "recovery_tests" \in results[j].keys
        /\ Cardinality(SuccessRecords(results[j].recovery_tests))
              < Len(results[j].recovery_tests)

\* Every campaign of the list failed its pre-connection.
NoDeviceReached(results) ==
    \A j \in 1..Len(results) : results[j].result = "failed_pre_connection"

\* What C33 says of the assessment a of the list results.
AssessmentRule(results, a) ==
    /\ a = "Security vulnerabilities found" <=> SomeIncompleteRecovery(results)
    /\ a # "Abnormal behavior found"
    /\ NoDeviceReached(results) => a = "Device security is good"

\* C33: for the results test_length_vulnerability produces,
\* analyze_test_results selects 'vulnerabilities found' exactly when some
\* campaign reached the recovery phase with fewer successful probes than
\* probes, never selects 'abnormal behavior found', and assesses a sweep
\* whose campaigns all failed pre-connection as 'device security is good':
\* for the sweep the session ran, and for every sweep of SampleSweeps.
C33_AssessmentFollowsRecoveries ==
    /\ (prog = "length" /\ pc = "done") => AssessmentRule(test_results, assessment)
    /\ (prog = "length" /\ pc = "connect" /\ test_results = <<>> /\ attempt = 2) =>
          \A sweep \in SampleSweeps : AssessmentRule(sweep, analyze_test_results(sweep))

\* No campaign of the sweep reached the device: assessed as good.
C33_Witness ==
    /\ prog = "length" /\ pc = "done"
    /\ Len(test_results) = Len(SweepValues)
    /\ NoDeviceReached(test_results)
    /\ assessment = "Device security is good"

\* A sweep with a crashed campaign: vulnerabilities found.
C33_WitnessFound ==
    /\ prog = "length" /\ pc = "done"
    /\ SomeIncompleteRecovery(test_results)
    /\ assessment = "Security vulnerabilities found"

\* C34: a fault of the fuzzed length request does not abort the campaign:
\* the step records result = exception with the error and goes on to the
\* first recovery probe; the campaign is judged on seven recovery records,
\* and its returned result carries them with the overall_result the S/K
\* rule gives for them.
C34_PerturbFaultKeepsCampaign ==
    /\ [](prog = "length" =>
            /\ (pc = "judge" /\ result.result = "exception") =>
                  SevenRecords(recovery_results)
            /\ \A j \in 1..Len(test_results) :
                  test_results[j].result = "exception" =>
                      /\ {"error", "recovery_tests", "overall_result"}
                            \subseteq test_results[j].keys
                      /\ SevenRecords(test_results[j].recovery_tests)
                      /\ VerdictRule(test_results[j].recovery_tests,
                                     test_results[j].overall_result))
    /\ [][(prog = "length" /\ ble'.length_request_fuzzed # ble.length_request_fuzzed
             /\ last_response' = Fault) =>
            /\ pc' = "recover" /\ probe' = 1
            /\ result'.result = "exception" /\ "error" \in result'.keys]_vars

\* A campaign whose fuzzed request raised returned a verdict on seven probes.
C34_Witness ==
    /\ CampaignReturned
    /\ LastResult.result = "exception"
    /\ "recovery_tests" \in LastResult.keys
    /\ Len(LastResult.recovery_tests) = 7
    /\ LastResult.overall_result = "device_crashed"

\* connection_request calls of the running campaign so far.
ConnectCalls == ble.connection_request - mark.connection_request

\* The verdict smart_connection_test gets for the reply r of attempt n.
AttemptVerdict(r, n) == intelligent_analyze_response(r, "connection_request", <<"attempt", n>>)

\* The reply r of attempt n is classified success or partial_success.
GoodReply(r, n) ==
    r # Fault /\ AttemptVerdict(r, n).status \in {"success", "partial_success"}

\* C35: smart_connection_test calls connection_request at most max_retries
\* times, once per attempt; an attempt whose response is classified success
\* or partial_success ends it with (True, response, analysis) of that
\* attempt; any other attempt (a fault, or any other status) is a failed
\* one, followed by the next attempt unless it was the last.  Of every
\* verdict of the analyzer, exactly those with status success or
\* partial_success are accepted.
C35_StopsAtFirstAcceptedAttempt ==
    /\ [](prog = "length" =>
            /\ pc = "connect" => ConnectCalls = attempt - 1 /\ attempt <= max_retries
            /\ pc = "connected" => ConnectCalls <= max_retries
            /\ (pc = "connected" /\ conn_ret.connected) =>
                  /\ ConnectCalls = attempt
                  /\ conn_ret.response = last_response
                  /\ conn_ret.analysis = AttemptVerdict(last_response, attempt)
                  /\ conn_ret.analysis.status \in {"success", "partial_success"}
            /\ (pc = "connect" /\ test_results = <<>> /\ attempt = 3) =>
                  \A r \in Responses, op \in Operations :
                      LET a == intelligent_analyze_response(r, op, NoContext)
                      IN  Accepted(a) <=> a.status \in {"success", "partial_success"})
    /\ [][(prog = "length" /\ pc = "connect" /\ pc' # "interrupted") =>
            /\ ble'.connection_request = ble.connection_request + 1
            /\ IF GoodReply(last_response', attempt)
               THEN pc' = "connected" /\ conn_ret'.returned /\ conn_ret'.connected
               ELSE IF attempt < max_retries
               THEN pc' = "connect" /\ attempt' = attempt + 1
               ELSE pc' \in {"connected", "raised"} /\ ~conn_ret'.connected]_vars

\* The seventh attempt was the first accepted one.
C35_Witness ==
    /\ prog = "length" /\ pc = "connected" /\ conn_ret.connected
    /\ attempt = max_retries /\ ConnectCalls = max_retries
    /\ connection_stats.failed >= max_retries - 1

\* The four outcome counters of the sweep.
OutcomeCounters == {"scan_failures", "connect_failures", "pairing_rejections", "successful_tests"}

\* C36: after every iteration of the pairing sweep total_tests =
\* successful_tests + failed_tests, failed_tests = scan_failures +
\* connect_failures + pairing_rejections, successful_tests is the number of
\* accepted key sizes and no_response is 0; each campaign adds one to exactly
\* one of scan_failures, connect_failures, pairing_rejections,
\* successful_tests and leaves the other three alone.
C36_SweepStatisticsAddUp ==
    /\ [](prog = "sweep" =>
            /\ test_stats.total_tests = test_stats.successful_tests + test_stats.failed_tests
            /\ test_stats.failed_tests = test_stats.scan_failures + test_stats.connect_failures
                                          + test_stats.pairing_rejections
            /\ test_stats.successful_tests = Len(accepted_key_sizes)
            /\ test_stats.no_response = 0)
    /\ [][(prog = "sweep" /\ test_stats'.total_tests # test_stats.total_tests) =>
            /\ test_stats'.total_tests = test_stats.total_tests + 1
            /\ \E c \in OutcomeCounters :
                /\ test_stats'[c] = test_stats[c] + 1
                /\ \A d \in OutcomeCounters \ {c} : test_stats'[d] = test_stats[d]]_vars

\* C36 witness: a finished sweep with an accepted, a rejected and an
\* unscanned campaign.
C36_Witness ==
    /\ prog = "sweep" /\ pc = "s_done"
    /\ test_stats.successful_tests = 1
    /\ test_stats.pairing_rejections = 1
    /\ test_stats.scan_failures = 1

\* TRUE iff the sequence of numbers s is strictly descending.
StrictlyDescending(s) == \A i \in 1..(Len(s) - 1) : s[i] > s[i + 1]

\* C37: the pairing sweep terminates; the bounds are put in order first
\* (swapped when start < end); then it runs one campaign per key size, from
\* the larger bound down to the smaller one in steps of one, whatever the
\* campaigns return, so that it has run |start - end| + 1 campaigns when it
\* returns; accepted_key_sizes is strictly descending.
C37_SweepVisitsEachKeySizeOnce ==
    /\ <>(pc = "s_done")
    /\ [][pc = "s_call" =>
            /\ {start_key_size', end_key_size'} = {start_key_size, end_key_size}
            /\ start_key_size' >= end_key_size'
            /\ (start_key_size >= end_key_size => start_key_size' = start_key_size)]_vars
    /\ [][pc = "s_loop" =>
            /\ start_key_size' = start_key_size /\ end_key_size' = end_key_size
            /\ (pc' = "s_loop" =>
                  /\ test_stats'.total_tests = test_stats.total_tests + 1
                  /\ key_size' = start_key_size - test_stats.total_tests
                  /\ key_size' >= end_key_size)
            /\ (pc' = "s_done" =>
                  test_stats.total_tests = start_key_size - end_key_size + 1)]_vars
    /\ [](/\ StrictlyDescending(accepted_key_sizes)
          /\ \A i \in 1..Len(accepted_key_sizes) :
                accepted_key_sizes[i] \in end_key_size..start_key_size)

\* C37 witness: a sweep called with the bounds in ascending order that has
\* returned, with two key sizes accepted and one campaign that never
\* connected.
C37_Witness ==
    /\ prog = "sweep" /\ pc = "s_done"
    /\ start_key_size = 9 /\ end_key_size = 7
    /\ accepted_key_sizes = <<9, 7>>
    /\ test_stats.connect_failures = 1

\* The four hints of the hint rules.
TerminationHint ==
    <<"Abnormal connection termination after attack - may trigger denial of service">>

NoAnswerHint ==
    <<"Device has no response to abnormal length request - may trigger SweynTooth vulnerability">>

ZeroLengthHint ==
    <<"Device accepts zero value length parameters - potential protocol stack vulnerability">>

ConfusionHint ==
    <<"Received feature request after length request - state machine may be abnormal">>

\* The operations whose name contains "connection", and the contexts whose
\* text contains "attack".
ConnectionFamily == {"connection_request", "post_attack_connection"}

AttackContexts == {<<"attack_max_rx", 0>>}

\* The three conditions of the abnormal-termination rule, on the classified
\* input.
TerminationRuleHolds ==
    /\ operation \in ConnectionFamily
    /\ ~response.none
    /\ \E j \in 1..Len(response.text) : response.text[j] = "LL_TERMINATE_IND"
    /\ context \in AttackContexts

\* C38: a classification carries the post-attack denial-of-service hint iff
\* its operation is in the connection family, its response contains
\* LL_TERMINATE_IND and its context marks an attack.
C38_TerminationHintIffAllThree ==
    Classified =>
        (TerminationHint \in Range(analysis.vulnerability_hints) <=> TerminationRuleHolds)

\* C38 witness: a recovery connection answered by a termination indication,
\* classified in an attack context, with the hint.
C38_Witness ==
    /\ Classified
    /\ operation = "post_attack_connection"
    /\ response.text = <<"LL_TERMINATE_IND">>
    /\ context = <<"attack_max_rx", 0>>
    /\ TerminationHint \in Range(analysis.vulnerability_hints)

\* C38 witness: the same response in the context of a recovery probe, which
\* does not mark an attack: no hint.
C38_WitnessRecoveryContext ==
    /\ Classified
    /\ operation = "post_attack_connection"
    /\ response.text = <<"LL_TERMINATE_IND">>
    /\ context = <<"recovery_attempt", 1>>
    /\ analysis.vulnerability_hints = <<>>

\* The hint rules on the classified input: the hint of each rule and
\* whether its condition holds.
HintRules ==
    {[hint |-> NoAnswerHint,
      holds |-> operation = "length_request" /\ SilentText(response.text)],
     [hint |-> ZeroLengthHint,
      holds |-> operation = "length_request"
                /\ \E j \in 1..Len(response.text) :
                      response.text[j] \in {"max_rx_bytes=0", "max_tx_bytes=0"}],
     [hint |-> TerminationHint, holds |-> TerminationRuleHolds],
     [hint |-> ConfusionHint,
      holds |-> operation = "length_request"
                /\ \E j \in 1..Len(response.text) : response.text[j] = "LL_SLAVE_FEATURE_REQ"]}

\* How many times h occurs in the sequence s.
Occurrences(s, h) == Cardinality({j \in 1..Len(s) : s[j] = h})

\* C39: the hints of a classified response are the operation-specific
\* hints followed by one entry for every hint rule whose condition holds and
\* none for a rule whose condition fails; nothing is dropped as a duplicate.
C39_EveryRuleThatHoldsAddsItsHint ==
    (Classified /\ ~response.none) =>
        LET hints == analysis.vulnerability_hints
            own == analyze_by_operation(response.text, operation).vulnerability_hints
            added == SubSeq(hints, Len(own) + 1, Len(hints))
        IN  /\ Len(hints) >= Len(own)
            /\ SubSeq(hints, 1, Len(own)) = own
            /\ Len(added) = Cardinality({rule \in HintRules : rule.holds})
            /\ \A rule \in HintRules :
                  Occurrences(added, rule.hint) = IF rule.holds THEN 1 ELSE 0

\* C39 witness: a length-fuzz response with a zero byte count and a feature
\* request carries the zero-length hint and the state-machine hint.
C39_Witness ==
    /\ Classified
    /\ operation = "length_request"
    /\ response.text = <<"max_rx_bytes=0", "LL_SLAVE_FEATURE_REQ">>
    /\ analysis.vulnerability_hints = <<ZeroLengthHint, ConfusionHint>>

\* The status -> action table, as pairs.
ActionTable ==
    {<<"success", "Proceed to next operation">>,
     <<"partial_success", "Observe device behavior, consider retrying">>,
     <<"error", "Check device status and connection parameters">>,
     <<"no_response", "Wait for device recovery or restart device">>,
     <<"unknown", "Further analysis required">>}

TableStatuses == {e[1] : e \in ActionTable}

TableAction(status) == (CHOOSE e \in ActionTable : e[1] = status)[2]

\* The actions of the two overrides and of the absent response.
AdvertisingAction == "Check if device is in advertising state, adjust scan parameters"

RetestAction ==
    "Device may be sensitive to abnormal length requests, try testing with normal values"

OnlineAction == "Check if device is online or restart the device"

\* The action the status and the operation call for: the two overrides,
\* else the table entry.
ActionFor(status, op) ==
    IF op = "connection_request" /\ status = "error" THEN AdvertisingAction
    ELSE IF op = "length_request" /\ status = "no_response" THEN RetestAction
    ELSE TableAction(status)

\* C40 as stated: recommended_action is the table entry of the status,
\* except the two overrides (connection attempt with error; length-fuzz
\* request with no_response, absent or empty alike), and every status the
\* classifier produces is in the table.
C40_ActionByStatusAndOperation ==
    Classified =>
        /\ analysis.status \in TableStatuses
        /\ analysis.recommended_action = ActionFor(analysis.status, operation)

\* C40: an absent response gets the one fixed action whatever the
\* operation; any other response gets the table entry of its status, except
\* the two overrides (connection attempt with error; length-fuzz request
\* with no_response); a status that is not in the table (unknown_response,
\* rejected) gets "No suggestions".
C40_ActionByAbsenceStatusAndOperation ==
    Classified =>
        analysis.recommended_action =
            IF response.none THEN OnlineAction
            ELSE IF analysis.status \in TableStatuses
            THEN ActionFor(analysis.status, operation)
            ELSE "No suggestions"

\* C40 witness: an empty answer to a length-fuzz request, with the retest
\* recommendation.
C40_Witness ==
    /\ Classified
    /\ operation = "length_request"
    /\ response.text = <<"Empty">>
    /\ analysis.status = "no_response"
    /\ analysis.recommended_action = RetestAction

\* C40 witness: no answer at all to a length-fuzz request, with the fixed
\* recommendation.
C40_WitnessAbsent ==
    /\ Classified
    /\ operation = "length_request"
    /\ response.none
    /\ analysis.status = "no_response"
    /\ analysis.recommended_action = OnlineAction

\* C40 witness: a failed connection attempt, with the advertising
\* recommendation.
C40_WitnessConnection ==
    /\ Classified
    /\ operation = "connection_request"
    /\ analysis.status = "error"
    /\ analysis.recommended_action = AdvertisingAction
====
